---------------------------- MODULE Spec2Model ----------------------------
(***************************************************************************)
(* A model of the Ollama API proxy (src/src/index.js): the embedding       *)
(* endpoint (request validation, the per-text upstream loop, response      *)
(* shaping and re-validation, error classification) and the chat/generate  *)
(* endpoints (message preparation, the single-shot responder and the       *)
(* NDJSON streaming responder).                                            *)
(*                                                                         *)
(* Every request handler is an async function.  It runs atomically between *)
(* two awaits, so the model has one action per resumption point: the       *)
(* request body arriving, an upstream fetch completing, generateText       *)
(* completing, streamText completing, and each step of the text stream.    *)
(*                                                                         *)
(* JavaScript values are encoded as records with a type tag.  Strings are  *)
(* kept in run-length form (leading whitespace, content, trailing          *)
(* whitespace), which is what trim() and .length depend on; error messages *)
(* are sequences of words, so that String.includes is a search for a       *)
(* contiguous run of words.                                                *)
(***************************************************************************)
EXTENDS Integers, Sequences, FiniteSets, TLC

VARIABLES
    env,              \* the API keys set in process.env
    providers,        \* names of the provider handles created at startup
    models,           \* the raw model configuration
    chatModels,       \* registry view: chat models
    embeddingModels,  \* registry view: embedding models
    route,            \* per request: the route key that was dispatched
    body,             \* per request: the parsed request body
    pc,               \* per request: where its handler is suspended
    local,            \* per request: the handler's local variables
    upstream,         \* per request: the upstream calls issued and their replies
    response          \* per request: the http.ServerResponse

vars == <<env, providers, models, chatModels, embeddingModels,
          route, body, pc, local, upstream, response>>

registry == <<env, providers, models, chatModels, embeddingModels>>

----------------------------------------------------------------------------
(* Bounds of the model *)

NumReq == 2          \* request slots
MaxDev == 2          \* upstream embedding calls 1..MaxDev (and the last one) may deviate
MaxDeltas == 2       \* deltas a text stream yields at most

Req == 1 .. NumReq

----------------------------------------------------------------------------
(* JavaScript strings: `lead` whitespace characters, then `body` characters *)
(* that start and end with a non-whitespace character (the content is      *)
(* identified by `id`), then `trail` whitespace characters.                *)

Str(lead, len, trail, id) == [lead |-> lead, body |-> len, trail |-> trail, id |-> id]

EmptyStr == Str(0, 0, 0, 0)

StrLen(s) == s.lead + s.body + s.trail

\* String.prototype.trim
Trim(s) == Str(0, s.body, 0, s.id)

----------------------------------------------------------------------------
(* JavaScript values *)

Undefined == [t |-> "undefined", s |-> EmptyStr, n |-> 0, a |-> << >>]
Null      == [t |-> "null",      s |-> EmptyStr, n |-> 0, a |-> << >>]
StrV(s)   == [t |-> "string",    s |-> s,        n |-> 0, a |-> << >>]
NumV(n)   == [t |-> "number",    s |-> EmptyStr, n |-> n, a |-> << >>]
BoolV(b)  == [t |-> "boolean",   s |-> EmptyStr, n |-> IF b THEN 1 ELSE 0, a |-> << >>]
ArrV(a)   == [t |-> "array",     s |-> EmptyStr, n |-> 0, a |-> a]

\* ToBoolean: what `if (v)` and `!v` test
Truthy(v) ==
    CASE v.t = "undefined" -> FALSE
      [] v.t = "null"      -> FALSE
      [] v.t = "string"    -> StrLen(v.s) > 0
      [] v.t = "number"    -> v.n # 0
      [] v.t = "boolean"   -> v.n = 1
      [] OTHER             -> TRUE

IsString(v) == v.t = "string"
IsArray(v)  == v.t = "array"

(* The `model` field of a body.  A one-element array [name] is a truthy    *)
(* value that, used as a property key, is converted to the string name.    *)
ModelV(t, name) == [t |-> t, name |-> name]
NoModel == ModelV("undefined", "")

ModelTruthy(m) == m.t = "array" \/ (m.t = "string" /\ m.name # "")
\* ToPropertyKey
ModelKey(m) == IF m.t = "undefined" THEN "undefined" ELSE m.name

----------------------------------------------------------------------------
(* Error messages: sequences of words *)

\* String.prototype.includes
Includes(msg, pat) ==
    \E k \in 1 .. (Len(msg) - Len(pat) + 1) : SubSeq(msg, k, k + Len(pat) - 1) = pat

NoMessage == << >>


----------------------------------------------------------------------------
(* Startup: providers and the model registry *)

\* an entry of the model configuration that is a JSON object; a key that is
\* missing is the empty string
ModelConfig(provider, model, type) ==
    [provider |-> provider, model |-> model, type |-> type, isNull |-> FALSE]

NoConfig == ModelConfig("", "", "")

\* an entry of the model configuration that is the JSON value null
NullEntry == [provider |-> "", model |-> "", type |-> "", isNull |-> TRUE]

\* the environment the process was started in: the API keys that are set
EnvKeys == {"OPENAI_API_KEY", "GEMINI_API_KEY"}

\* the provider handles created from the API keys
InitProviders(keys) ==
    (IF "OPENAI_API_KEY" \in keys THEN {"openai"} ELSE {})
    \cup (IF "GEMINI_API_KEY" \in keys THEN {"google"} ELSE {})
    \cup (IF "OPENROUTER_API_KEY" \in keys THEN {"openrouter"} ELSE {})

\* the models.json the process was started with
RawModels ==
    [n \in {"my-chat", "my-gemini", "my-embedding", "openai-embedding",
            "router-chat", "no-provider", "no-model", "my-vision"} |->
        CASE n = "my-chat"          -> ModelConfig("openai", "gpt-4o-mini", "")
          [] n = "my-gemini"        -> ModelConfig("google", "gemini-pro", "chat")
          [] n = "my-embedding"     -> ModelConfig("google", "text-embedding-004", "embedding")
          [] n = "openai-embedding" -> ModelConfig("openai", "text-embedding-3-small", "embedding")
          [] n = "router-chat"      -> ModelConfig("openrouter", "deepseek-r1", "chat")
          [] n = "no-provider"      -> ModelConfig("", "gpt-4o-mini", "chat")
          [] n = "no-model"         -> ModelConfig("google", "", "embedding")
          [] OTHER                  -> ModelConfig("google", "gemini-vision", "vision")]

\* config.type || 'chat'
ModelType(config) == IF config.type = "" THEN "chat" ELSE config.type

\* the two `continue` guards of the loading loop
LoadableEntry(config, provs) ==
    /\ config.provider # "" /\ config.model # ""
    /\ config.provider \in provs

\* the built-in models, used when there is no models.json
BuiltInModels ==
    [n \in {"gpt-4o-mini", "gpt-4.1-mini", "gpt-4.1-nano", "gemini-2.5-flash",
            "gemini-2.5-flash-lite", "deepseek-r1"} |->
        CASE n = "gemini-2.5-flash"      -> ModelConfig("google", n, "")
          [] n = "gemini-2.5-flash-lite" -> ModelConfig("google", n, "")
          [] n = "deepseek-r1"
               -> ModelConfig("openrouter", "deepseek/deepseek-r1-0528:free", "")
          [] OTHER                       -> ModelConfig("openai", n, "")]

\* config.provider of a null entry throws a TypeError, which the catch block
\* of loadModels answers with process.exit(1)
LoadThrows(raw) == \E n \in DOMAIN raw : raw[n].isNull

LoadChatModels(raw, provs) ==
    [n \in {m \in DOMAIN raw : LoadableEntry(raw[m], provs)
                                 /\ ModelType(raw[m]) = "chat"} |-> raw[n]]

LoadEmbeddingModels(raw, provs) ==
    [n \in {m \in DOMAIN raw : LoadableEntry(raw[m], provs)
                                 /\ ModelType(raw[m]) = "embedding"} |-> raw[n]]

----------------------------------------------------------------------------
(* Results of functions that may throw: ok = FALSE carries the message of  *)
(* the Error that was thrown.                                              *)

Tok(n) == ToString(n)

Thrown(msg) == [ok |-> FALSE, err |-> msg]

(* The registry views are plain objects ({}), and registry[name] is a       *)
(* property read: a name that is no key of the view but a property of      *)
(* Object.prototype reads a truthy value that has no provider and no model. *)
InheritedKeys == {"constructor", "toString", "__proto__"}

\* registry[name] is truthy
HasProperty(reg, name) == name \in DOMAIN reg \/ name \in InheritedKeys

\* registry[name], when it is truthy
Property(reg, name) == IF name \in DOMAIN reg THEN reg[name] ELSE NoConfig

\* ${config.provider}
ProviderText(config) == IF config.provider = "" THEN "undefined" ELSE config.provider

\* validateChatModel
validateChatModel(m, chat, provs) ==
    LET name == ModelKey(m)
        config == Property(chat, name)
    IN  IF ~HasProperty(chat, name)
        THEN Thrown(<<"Chat", "model", name, "not", "supported">>) @@ [config |-> NoConfig]
        ELSE IF config.provider \notin provs
        THEN Thrown(<<"Provider", ProviderText(config), "not", "available">>)
                 @@ [config |-> NoConfig]
        ELSE [ok |-> TRUE, err |-> NoMessage, config |-> config]

\* validateEmbeddingModel
validateEmbeddingModel(m, emb, provs) ==
    LET name == ModelKey(m)
        config == Property(emb, name)
    IN  IF ~HasProperty(emb, name)
        THEN Thrown(<<"Embedding", "model", name, "not", "supported">>)
                 @@ [config |-> NoConfig]
        ELSE IF config.provider \notin provs
        THEN Thrown(<<"Provider", ProviderText(config), "not", "available">>)
                 @@ [config |-> NoConfig]
        ELSE IF config.type # "embedding"
        THEN Thrown(<<"Model", name, "is", "not", "an", "embedding", "model">>)
                 @@ [config |-> NoConfig]
        ELSE [ok |-> TRUE, err |-> NoMessage, config |-> config]

----------------------------------------------------------------------------
(* Embedding request validation *)

maxTexts == 100
maxTextLength == 10000

Min(S) == CHOOSE k \in S : \A j \in S : k <= j

\* the elements of body.input that make the map callback throw
BadElementsTypeOnly(a) == {k \in 1 .. Len(a) : ~IsString(a[k])}
BadElements(a) ==
    {k \in 1 .. Len(a) : ~IsString(a[k]) \/ Trim(a[k].s) = EmptyStr}

\* the texts of inputTexts that are longer than maxTextLength
TooLong(texts) == {k \in 1 .. Len(texts) : StrLen(texts[k]) > maxTextLength}

\* isSingleText: inputTexts.length === 1 && body.prompt !== undefined
isSingleTextOf(b, texts) == Len(texts) = 1 /\ b.prompt.t # "undefined"

Rejected(msg) ==
    [ok |-> FALSE, err |-> msg, modelConfig |-> NoConfig,
     inputTexts |-> << >>, isSingleText |-> FALSE]

NoTexts == [texts |-> << >>]
Texts(t) == [ok |-> TRUE, err |-> NoMessage, texts |-> t]

\* the prompt branch: { "model": "...", "prompt": "text" }
PromptTextsUntrimmed(prompt) ==
    IF ~IsString(prompt) \/ Trim(prompt.s) = EmptyStr
    THEN Thrown(<<"Prompt", "must", "be", "a", "non-empty", "string">>) @@ NoTexts
    ELSE Texts(<<prompt.s>>)
PromptTexts(prompt) ==
    IF ~IsString(prompt) \/ Trim(prompt.s) = EmptyStr
    THEN Thrown(<<"Prompt", "must", "be", "a", "non-empty", "string">>) @@ NoTexts
    ELSE Texts(<<Trim(prompt.s)>>)

\* body.input.map(...) over a non-empty array: the first bad element throws
InputArrayTexts(a) ==
    IF BadElements(a) # {} THEN
        LET k == Min(BadElements(a)) IN
        IF ~IsString(a[k])
        THEN Thrown(<<"Input", "at", "index", Tok(k - 1), "must", "be", "a", "string">>)
                 @@ NoTexts
        ELSE Thrown(<<"Input", "at", "index", Tok(k - 1), "cannot", "be", "empty">>)
                 @@ NoTexts
    ELSE Texts([k \in 1 .. Len(a) |-> Trim(a[k].s)])

\* a single string in the input field
InputStringTexts(input) ==
    IF Trim(input.s) = EmptyStr
    THEN Thrown(<<"Input", "cannot", "be", "empty">>) @@ NoTexts
    ELSE Texts(<<Trim(input.s)>>)

\* the part of validateEmbeddingRequest that collects inputTexts from the
\* body: [ok, err, texts]
CollectInputTexts(b) ==
    IF Truthy(b.prompt) THEN PromptTexts(b.prompt)
    ELSE IF Truthy(b.input) THEN
        IF IsArray(b.input) THEN
            IF Len(b.input.a) = 0
            THEN Thrown(<<"Input", "array", "cannot", "be", "empty">>) @@ NoTexts
            ELSE InputArrayTexts(b.input.a)
        ELSE IF IsString(b.input) THEN InputStringTexts(b.input)
        ELSE Thrown(<<"Input", "must", "be", "a", "string", "or", "array", "of", "strings">>)
                 @@ NoTexts
    ELSE Thrown(<<"Missing", "required", "field", ":", "either", "prompt", "or", "input",
                  "must", "be", "provided">>) @@ NoTexts

\* the length limits on inputTexts: the message thrown, or NoMessage
LimitErrorOffByOne(texts) ==
    IF Len(texts) > maxTexts + 1
    THEN <<"Too", "many", "input", "texts", ".", "Maximum", "allowed", ":", Tok(maxTexts)>>
    ELSE IF TooLong(texts) # {}
    THEN <<"Input", "text", "at", "index", Tok(Min(TooLong(texts)) - 1), "is", "too",
           "long", ".", "Maximum", "length", ":", Tok(maxTextLength), "characters">>
    ELSE NoMessage
LimitError(texts) ==
    IF Len(texts) > maxTexts
    THEN <<"Too", "many", "input", "texts", ".", "Maximum", "allowed", ":", Tok(maxTexts)>>
    ELSE IF TooLong(texts) # {}
    THEN <<"Input", "text", "at", "index", Tok(Min(TooLong(texts)) - 1), "is", "too",
           "long", ".", "Maximum", "length", ":", Tok(maxTextLength), "characters">>
    ELSE NoMessage

\* validateEmbeddingRequest: [ok, err, modelConfig, inputTexts, isSingleText]
validateEmbeddingRequest(b, emb, provs) ==
    LET mc == validateEmbeddingModel(b.model, emb, provs)
        in == CollectInputTexts(b)
    IN  IF ~ModelTruthy(b.model) THEN Rejected(<<"Missing", "required", "field", ":", "model">>)
        ELSE IF ~mc.ok THEN Rejected(mc.err)
        ELSE IF ~in.ok THEN Rejected(in.err)
        ELSE IF LimitError(in.texts) # NoMessage THEN Rejected(LimitError(in.texts))
        ELSE [ok |-> TRUE, err |-> NoMessage, modelConfig |-> mc.config,
              inputTexts |-> in.texts, isSingleText |-> isSingleTextOf(b, in.texts)]

----------------------------------------------------------------------------
(* The response sink (http.ServerResponse) and the JSON objects written    *)
(* to it.  A JSON object is a record of all fields any envelope may have,  *)
(* together with the set of keys that are present.                         *)

NoPayload ==
    [keys |-> {}, model |-> NoModel, created_at |-> "", done |-> FALSE,
     content |-> Undefined, reasoning |-> Undefined, reasoningAt |-> "",
     messages |-> << >>, error |-> NoMessage,
     embedding |-> << >>, embeddings |-> << >>, models |-> << >>]

\* new Date().toISOString()
Timestamp == "created_at"

NewResponse ==
    [headersSent |-> FALSE, writeHeads |-> 0, statusCode |-> 0, contentType |-> "",
     json |-> NoPayload, lines |-> << >>, ended |-> FALSE]

\* sendJSON: writeHead(status, ...).end(JSON.stringify(data))
sendJSON(resp, data, status) ==
    [resp EXCEPT !.headersSent = TRUE, !.writeHeads = @ + 1, !.statusCode = status,
                 !.contentType = "application/json", !.json = data, !.ended = TRUE]

ErrorPayload(msg) == [NoPayload EXCEPT !.keys = {"error"}, !.error = msg]

----------------------------------------------------------------------------
(* Error classification of the embedding endpoint *)

IsBadRequest(msg) ==
    \/ Includes(msg, <<"not", "supported">>)
    \/ Includes(msg, <<"not", "an", "embedding", "model">>)
    \/ Includes(msg, <<"Missing", "required", "field">>)
    \/ Includes(msg, <<"must", "be">>)
    \/ Includes(msg, <<"cannot", "be", "empty">>)
    \/ Includes(msg, <<"Too", "many">>)
    \/ Includes(msg, <<"too", "long">>)

IsUnauthorized(msg) ==
    \/ Includes(msg, <<"not", "available">>)
    \/ Includes(msg, <<"API", "key">>)
    \/ Includes(msg, <<"authentication">>)
    \/ Includes(msg, <<"unauthorized">>)

IsRateLimited(msg) ==
    \/ Includes(msg, <<"rate", "limit">>)
    \/ Includes(msg, <<"quota">>)
    \/ Includes(msg, <<"too", "many", "requests">>)

IsUnavailable(msg) ==
    \/ Includes(msg, <<"service", "unavailable">>)
    \/ Includes(msg, <<"timeout">>)

\* the status and message handleEmbeddingError chooses
ClassifyEmbeddingError(msg) ==
    IF IsBadRequest(msg) THEN [status |-> 400, message |-> msg]
    ELSE IF IsUnauthorized(msg) THEN [status |-> 401, message |-> msg]
    ELSE IF IsRateLimited(msg)
    THEN [status |-> 429,
          message |-> <<"Rate", "limit", "exceeded", ".", "Please", "try", "again",
                        "later", ".">>]
    ELSE IF IsUnavailable(msg)
    THEN [status |-> 503,
          message |-> <<"Service", "temporarily", "unavailable", ".", "Please", "try",
                        "again", "later", ".">>]
    ELSE [status |-> 500, message |-> <<"Internal", "server", "error">>]

\* handleEmbeddingError
handleEmbeddingError(msg, resp) ==
    LET c == ClassifyEmbeddingError(msg) IN
    IF ~resp.headersSent THEN sendJSON(resp, ErrorPayload(c.message), c.status) ELSE resp

----------------------------------------------------------------------------
(* The upstream embedding service (Google embedContent) *)

\* what one fetch of embedContent may do: reject, or resolve with a status,
\* an error body, and a JSON result that does or does not hold a values array
Outcome(kind, status, hasValues, values, data) ==
    [kind |-> kind, status |-> status, hasValues |-> hasValues, values |-> values,
     data |-> data]

\* a vector of `dim` numbers computed from the text it embeds
Vector(text, dim) == [k \in 1 .. dim |-> text.id]

ErrorBodies ==
    {<<"backend", "error">>, <<"quota", "exceeded">>, <<"service", "unavailable">>}

UpstreamOutcomes(text) ==
    {Outcome("response", 200, TRUE, Vector(text, d), NoMessage) : d \in 0 .. 2}
    \cup {Outcome("response", 200, FALSE, << >>, NoMessage)}
    \cup {Outcome("response", st, FALSE, << >>, d) :
              st \in {400, 401, 429, 500, 503}, d \in ErrorBodies}
    \cup {Outcome("reject", 0, FALSE, << >>, <<"fetch", "failed">>)}

\* the reply of an upstream that behaves well
StandardOutcome(text) == Outcome("response", 200, TRUE, Vector(text, 2), NoMessage)

\* response.ok
ResponseOk(o) == o.status >= 200 /\ o.status <= 299

\* the Error one iteration of the loop throws for the reply to text i
\* (0-based), or NoMessage when the vector is pushed
ItemErrorNo429(o, i) ==
    IF o.kind = "reject" THEN o.data
    ELSE IF ~ResponseOk(o) THEN
        IF o.status = 401
        THEN <<"Google", "API", "authentication", "failed", ".", "Please", "check", "your",
               "GEMINI_API_KEY", ".">>
        ELSE IF o.status = 400
        THEN <<"Invalid", "request", "to", "Google", "API", ":">> \o o.data
        ELSE <<"Google", "API", "error", "(", Tok(o.status), ")", ":">> \o o.data
    ELSE IF ~o.hasValues
    THEN <<"Invalid", "embedding", "response", "for", "text", Tok(i + 1), ":", "missing",
           "or", "invalid", "embedding", "array">>
    ELSE NoMessage
ItemError(o, i) ==
    IF o.kind = "reject" THEN o.data
    ELSE IF ~ResponseOk(o) THEN
        IF o.status = 401
        THEN <<"Google", "API", "authentication", "failed", ".", "Please", "check", "your",
               "GEMINI_API_KEY", ".">>
        ELSE IF o.status = 429
        THEN <<"Google", "API", "rate", "limit", "exceeded", ".", "Please", "try", "again",
               "later", ".">>
        ELSE IF o.status = 400
        THEN <<"Invalid", "request", "to", "Google", "API", ":">> \o o.data
        ELSE <<"Google", "API", "error", "(", Tok(o.status), ")", ":">> \o o.data
    ELSE IF ~o.hasValues
    THEN <<"Invalid", "embedding", "response", "for", "text", Tok(i + 1), ":", "missing",
           "or", "invalid", "embedding", "array">>
    ELSE NoMessage

\* the checks generateEmbeddings makes before its loop: the message thrown,
\* or NoMessage
ProviderError(modelConfig, keys) ==
    IF modelConfig.provider = "google" /\ "GEMINI_API_KEY" \notin keys
    THEN <<"Google", "API", "key", "(", "GEMINI_API_KEY", ")", "is", "required", "for",
           "Google", "embedding", "models">>
    ELSE IF modelConfig.provider # "google"
    THEN <<"Only", "Google", "embedding", "models", "are", "currently", "supported", ",",
           "got", ":", modelConfig.provider>>
    ELSE NoMessage

\* the value generateEmbeddings returns
EmbeddingResult(modelConfig, embeddings) ==
    [embeddings |-> embeddings, model |-> modelConfig.model,
     dimensions |-> IF Len(embeddings) > 0 THEN Len(embeddings[1]) ELSE 0]

----------------------------------------------------------------------------
(* Response shaping and re-validation *)

\* formatEmbeddingResponse
formatEmbeddingResponse(embeddingResult, modelName, isSingleText) ==
    IF isSingleText
    THEN [NoPayload EXCEPT
             !.keys = {"model", "created_at"}
                      \cup (IF Len(embeddingResult.embeddings) > 0 THEN {"embedding"} ELSE {}),
             !.embedding = IF Len(embeddingResult.embeddings) > 0
                           THEN embeddingResult.embeddings[1] ELSE << >>,
             !.model = modelName, !.created_at = Timestamp]
    ELSE [NoPayload EXCEPT
             !.keys = {"embeddings", "model", "created_at"},
             !.embeddings = embeddingResult.embeddings,
             !.model = modelName, !.created_at = Timestamp]

\* validateEmbeddingResponse: the message thrown, or NoMessage
validateEmbeddingResponse(resp, expectedCount) ==
    LET shape ==
            IF "embedding" \in resp.keys THEN
                IF Len(resp.embedding) = 0
                THEN <<"Embedding", "array", "cannot", "be", "empty">>
                ELSE IF expectedCount # 1
                THEN <<"Expected", Tok(expectedCount), "embeddings", "but", "got", "single",
                       "embedding">>
                ELSE NoMessage
            ELSE IF "embeddings" \in resp.keys THEN
                IF Len(resp.embeddings) # expectedCount
                THEN <<"Expected", Tok(expectedCount), "embeddings", "but", "got",
                       Tok(Len(resp.embeddings))>>
                ELSE IF \E k \in 1 .. Len(resp.embeddings) : Len(resp.embeddings[k]) = 0
                THEN <<"Embedding", "at", "index",
                       Tok(Min({k \in 1 .. Len(resp.embeddings) :
                                    Len(resp.embeddings[k]) = 0}) - 1),
                       "is", "empty">>
                ELSE NoMessage
            ELSE <<"Response", "must", "contain", "either", "embedding", "or", "embeddings",
                   "field">>
    IN  IF shape # NoMessage THEN shape
        ELSE IF ~ModelTruthy(resp.model) \/ resp.model.t # "string"
        THEN <<"Response", "must", "contain", "valid", "model", "name">>
        ELSE IF resp.created_at = ""
        THEN <<"Response", "must", "contain", "valid", "created_at", "timestamp">>
        ELSE NoMessage

----------------------------------------------------------------------------
(* Request bodies *)

NoMessages == [present |-> FALSE, list |-> << >>]

\* body.options: its three decoded fields, undefined when not set
Options(temperature, num_predict, top_p) ==
    [temperature |-> temperature, num_predict |-> num_predict, top_p |-> top_p]

NoOptions == Options(Undefined, Undefined, Undefined)

Body(model, prompt, input, messages, stream, options) ==
    [model |-> model, prompt |-> prompt, input |-> input, messages |-> messages,
     stream |-> stream, options |-> options]

NoBody == Body(NoModel, Undefined, Undefined, NoMessages, Undefined, NoOptions)

\* texts: "hello" (identified by 7) bare and padded, whitespace only, a text
\* of maxTextLength characters padded, and one character more than that
Hello       == Str(0, 5, 0, 7)
PaddedHello == Str(1, 5, 2, 7)
Blank       == Str(2, 0, 0, 0)
LongText    == Str(3, maxTextLength, 1, 8)
TooLongText == Str(0, maxTextLength + 1, 0, 9)

\* the k-th element of a generated input array: every second one is padded
Element(k) == StrV(Str(k % 2, 3, 0, k))

ValidArray(n) == ArrV([k \in 1 .. n |-> Element(k)])

\* an array of n elements whose d-th element is v
ArrayWith(n, d, v) == ArrV([k \in 1 .. n |-> IF k = d THEN v ELSE Element(k)])

EmbeddingModelValues ==
    {NoModel, ModelV("string", ""), ModelV("string", "my-embedding"),
     ModelV("array", "my-embedding"), ModelV("string", "openai-embedding"),
     ModelV("string", "my-chat"), ModelV("string", "nope"),
     ModelV("string", "constructor")}

PromptValues ==
    {Undefined, Null, StrV(EmptyStr), StrV(Blank), StrV(Hello), StrV(PaddedHello),
     NumV(5), StrV(LongText), StrV(TooLongText)}

InputValues ==
    {Undefined, StrV(EmptyStr), StrV(Blank), StrV(Hello), StrV(TooLongText), NumV(5),
     ArrV(<<StrV(Hello)>>)}
    \cup {ValidArray(n) : n \in {0, 1, 2, 3, maxTexts, maxTexts + 1}}
    \cup {ArrayWith(3, d, v) : d \in 1 .. 3, v \in {NumV(5), StrV(Blank), StrV(TooLongText)}}
    \cup {ArrayWith(maxTexts + 1, 2, v) : v \in {StrV(Blank), StrV(TooLongText)}}

EmbeddingBodies ==
    {Body(m, p, i, NoMessages, Undefined, NoOptions) :
         m \in EmbeddingModelValues, p \in PromptValues, i \in InputValues}

----------------------------------------------------------------------------
(* Per-request state of a handler *)

NoLocal ==
    [modelConfig |-> NoConfig, inputTexts |-> << >>, isSingleText |-> FALSE,
     i |-> 0, embeddings |-> << >>, validMessages |-> << >>, caught |-> NoMessage]

\* an upstream call: embedContent carries a text, generateText and
\* streamText carry the messages and the three settings
Call(api, model, text) ==
    [api |-> api, model |-> model, text |-> text, messages |-> << >>,
     temperature |-> Undefined, maxTokens |-> Undefined, topP |-> Undefined]

\* calls issued, replies of embedContent and of generateText, deltas the text
\* stream has yielded,
\* how the streaming call finished ("end" or "error") and the message of the
\* Error it threw
NoUpstream ==
    [calls |-> << >>, replies |-> << >>, deltas |-> << >>, finish |-> "",
     thrown |-> NoMessage]

\* the fetch of the loop body for text i (0-based)
IssueFetchAhead(u, loc, i) ==
    [u EXCEPT !.calls =
        @ \o [k \in 1 .. (IF i + 2 <= Len(loc.inputTexts) THEN 2 ELSE 1) |->
                  Call("embedContent", loc.modelConfig.model, loc.inputTexts[i + k])]]
IssueFetch(u, loc, i) ==
    [u EXCEPT !.calls = Append(@, Call("embedContent", loc.modelConfig.model,
                                       loc.inputTexts[i + 1]))]

\* the route's steps after generateEmbeddings has returned: format, validate,
\* send; a failure of the validation goes to the route's catch
SendUnvalidated(resp, b, loc) ==
    LET result == EmbeddingResult(loc.modelConfig, loc.embeddings)
        formatted == formatEmbeddingResponse(result, b.model, loc.isSingleText)
    IN  [caught |-> NoMessage, resp |-> sendJSON(resp, formatted, 200)]
SendEmbeddings(resp, b, loc) ==
    LET result == EmbeddingResult(loc.modelConfig, loc.embeddings)
        formatted == formatEmbeddingResponse(result, b.model, loc.isSingleText)
        verr == validateEmbeddingResponse(formatted, Len(loc.inputTexts))
    IN  IF verr # NoMessage THEN [caught |-> verr, resp |-> handleEmbeddingError(verr, resp)]
        ELSE [caught |-> NoMessage, resp |-> sendJSON(resp, formatted, 200)]

\* the replies the model lets the upstream give to call i (0-based) of n
RepliesAt(text, i, n) ==
    IF i + 1 <= MaxDev \/ i + 1 = n THEN UpstreamOutcomes(text) ELSE {StandardOutcome(text)}

\* embeddings.push(result.embedding.values)
UnshiftEmbedding(embeddings, values) == <<values>> \o embeddings
PushEmbedding(embeddings, values) == Append(embeddings, values)

\* one iteration of the loop of generateEmbeddings, from the reply o to text
\* loc.i on: the Error it throws (its catch block throws it again), or the
\* vector pushed and the index of the next text
LoopIterationSwallows(loc, o) ==
    IF ItemError(o, loc.i) # NoMessage
    THEN [thrown |-> NoMessage, loc |-> [loc EXCEPT !.i = @ + 1]]
    ELSE [thrown |-> NoMessage,
          loc |-> [loc EXCEPT !.embeddings = PushEmbedding(@, o.values), !.i = @ + 1]]
LoopIterationCached(loc, o) ==
    IF ItemError(o, loc.i) # NoMessage
    THEN [thrown |-> ItemError(o, loc.i), loc |-> loc]
    ELSE IF loc.i + 2 <= Len(loc.inputTexts)
            /\ loc.inputTexts[loc.i + 2] = loc.inputTexts[loc.i + 1]
    THEN [thrown |-> NoMessage,
          loc |-> [loc EXCEPT !.embeddings = PushEmbedding(PushEmbedding(@, o.values),
                                                           o.values),
                              !.i = @ + 2]]
    ELSE [thrown |-> NoMessage,
          loc |-> [loc EXCEPT !.embeddings = PushEmbedding(@, o.values), !.i = @ + 1]]
LoopIteration(loc, o) ==
    IF ItemError(o, loc.i) # NoMessage
    THEN [thrown |-> ItemError(o, loc.i), loc |-> loc]
    ELSE [thrown |-> NoMessage,
          loc |-> [loc EXCEPT !.embeddings = PushEmbedding(@, o.values), !.i = @ + 1]]

----------------------------------------------------------------------------
(* POST /api/embeddings *)

\* the body has arrived: validate, check the provider, start the loop
EmbeddingsReceive(r) ==
    /\ pc[r] = "received"
    /\ route[r] = "POST /api/embeddings"
    /\ LET v == validateEmbeddingRequest(body[r], embeddingModels, providers)
           perr == ProviderError(v.modelConfig, env)
           loc == [local[r] EXCEPT !.modelConfig = v.modelConfig,
                                   !.inputTexts = v.inputTexts,
                                   !.isSingleText = v.isSingleText]
       IN  IF ~v.ok THEN
               /\ local' = [local EXCEPT ![r].caught = v.err]
               /\ response' = [response EXCEPT ![r] = handleEmbeddingError(v.err, @)]
               /\ pc' = [pc EXCEPT ![r] = "done"]
               /\ UNCHANGED upstream
           ELSE IF perr # NoMessage THEN
               /\ local' = [local EXCEPT ![r] = [loc EXCEPT !.caught = perr]]
               /\ response' = [response EXCEPT ![r] = handleEmbeddingError(perr, @)]
               /\ pc' = [pc EXCEPT ![r] = "done"]
               /\ UNCHANGED upstream
           ELSE IF Len(v.inputTexts) = 0 THEN
               LET sent == SendEmbeddings(response[r], body[r], loc) IN
               /\ local' = [local EXCEPT ![r] = [loc EXCEPT !.caught = sent.caught]]
               /\ response' = [response EXCEPT ![r] = sent.resp]
               /\ pc' = [pc EXCEPT ![r] = "done"]
               /\ UNCHANGED upstream
           ELSE
               /\ local' = [local EXCEPT ![r] = loc]
               /\ upstream' = [upstream EXCEPT ![r] = IssueFetch(@, loc, 0)]
               /\ pc' = [pc EXCEPT ![r] = "fetch"]
               /\ UNCHANGED response
    /\ UNCHANGED <<registry, route, body>>

\* the fetch for text i has completed with outcome o
EmbeddingsFetchReturn(r) ==
    /\ pc[r] = "fetch"
    /\ \E o \in RepliesAt(local[r].inputTexts[local[r].i + 1], local[r].i,
                          Len(local[r].inputTexts)) :
        LET step == LoopIteration(local[r], o)
            err == step.thrown
            u == [upstream[r] EXCEPT !.replies = Append(@, o)]
            loc == step.loc
        IN  IF err # NoMessage THEN
                /\ local' = [local EXCEPT ![r].caught = err]
                /\ upstream' = [upstream EXCEPT ![r] = u]
                /\ response' = [response EXCEPT ![r] = handleEmbeddingError(err, @)]
                /\ pc' = [pc EXCEPT ![r] = "done"]
            ELSE IF loc.i < Len(loc.inputTexts) THEN
                /\ local' = [local EXCEPT ![r] = loc]
                /\ upstream' = [upstream EXCEPT ![r] = IssueFetch(u, loc, loc.i)]
                /\ UNCHANGED <<response, pc>>
            ELSE
                LET sent == SendEmbeddings(response[r], body[r], loc) IN
                /\ local' = [local EXCEPT ![r] = [loc EXCEPT !.caught = sent.caught]]
                /\ upstream' = [upstream EXCEPT ![r] = u]
                /\ response' = [response EXCEPT ![r] = sent.resp]
                /\ pc' = [pc EXCEPT ![r] = "done"]
    /\ UNCHANGED <<registry, route, body>>

----------------------------------------------------------------------------
(* Chat and generate: messages, the upstream generation service *)

Message(role, content) == [role |-> role, content |-> content]

\* a || b
Or(a, b) == IF Truthy(a) THEN a ELSE b

\* the filter callback of prepareMessages: msg.content && msg.content.trim()
KeepUntrimmed(msg) == Truthy(msg.content)
KeepMessage(msg) == Truthy(msg.content) /\ Trim(msg.content.s) # EmptyStr

\* the map callback of prepareMessages
PreparedMessage(msg) ==
    Message(IF msg.role = "assistant" THEN "assistant" ELSE "user",
            StrV(Trim(msg.content.s)))

\* prepareMessages: [ok, err, list]; a truthy content that is no string has
\* no trim method, and the filter callback throws a TypeError
prepareMessages(messages) ==
    IF \E k \in 1 .. Len(messages) :
           Truthy(messages[k].content) /\ ~IsString(messages[k].content)
    THEN Thrown(<<"msg.content.trim", "is", "not", "a", "function">>) @@ [list |-> << >>]
    ELSE [ok |-> TRUE, err |-> NoMessage,
          list |-> [k \in 1 .. Len(SelectSeq(messages, KeepMessage)) |->
                        PreparedMessage(SelectSeq(messages, KeepMessage)[k])]]

NoValidMessages == <<"No", "valid", "messages", "found">>

\* the messageExtractor of the route, followed by `|| []`
ExtractMessages(rt, b) ==
    IF rt = "POST /api/chat"
    THEN (IF b.messages.present THEN b.messages.list ELSE << >>)
    ELSE <<Message("user", b.prompt)>>

\* the responseKey of the route
ResponseKey(rt) == IF rt = "POST /api/chat" THEN "message" ELSE "response"

\* the call generateResponse makes
GenerateTextCall(modelConfig, validMessages, options) ==
    [Call("generateText", modelConfig.model, EmptyStr) EXCEPT
        !.messages = validMessages,
        !.temperature = options.temperature,
        !.maxTokens = Or(options.num_predict, NumV(32768)),
        !.topP = options.top_p]

\* the call streamResponse makes
StreamTextCall(modelConfig, validMessages, options) ==
    [Call("streamText", modelConfig.model, EmptyStr) EXCEPT
        !.messages = validMessages,
        !.temperature = options.temperature,
        !.maxTokens = options.num_predict,
        !.topP = options.top_p]

\* a message of the transcript an upstream result may carry
UpstreamMessage(role, content, text, reasoning) ==
    [role |-> role, content |-> content, text |-> text, reasoning |-> reasoning]

\* what generateText resolves to, or the message it rejects with
GenResult(text, reasoning, hasMessages, messages) ==
    [kind |-> "result", text |-> text, reasoning |-> reasoning,
     hasMessages |-> hasMessages, messages |-> messages, err |-> NoMessage]

GenThrow(msg) ==
    [kind |-> "throw", text |-> Undefined, reasoning |-> Undefined,
     hasMessages |-> FALSE, messages |-> << >>, err |-> msg]

Text(id) == StrV(Str(0, 4, 0, id))

Transcripts ==
    {<< >>,
     <<UpstreamMessage("assistant", Text(31), Undefined, Undefined)>>,
     <<UpstreamMessage("assistant", Text(31), Undefined, Text(41)),
       UpstreamMessage("user", Text(32), Undefined, Undefined)>>,
     <<UpstreamMessage("assistant", Text(31), Undefined, Text(41)),
       UpstreamMessage("assistant", Text(33), Undefined, Undefined)>>,
     <<UpstreamMessage("assistant", Undefined, Text(34), Undefined)>>,
     <<UpstreamMessage("assistant", Text(31), Undefined, Text(41)),
       UpstreamMessage("assistant", StrV(EmptyStr), Undefined, Undefined)>>,
     <<UpstreamMessage("user", Text(32), Undefined, Text(41))>>}

UpstreamErrors == {<<"upstream", "failed">>, <<"rate", "limit", "exceeded">>}

GenerateTextOutcomes ==
    {GenResult(t, rs, FALSE, << >>) : t \in {Text(30), Undefined}, rs \in {Undefined, Text(40)}}
    \cup {GenResult(t, rs, TRUE, m) :
              t \in {Text(30), Undefined}, rs \in {Undefined, Text(40)}, m \in Transcripts}
    \cup {GenThrow(e) : e \in UpstreamErrors}

Assistants(messages) == {k \in 1 .. Len(messages) : messages[k].role = "assistant"}

Max(S) == CHOOSE k \in S : \A j \in S : k >= j

\* what generateResponse returns for an upstream result
generateResponseResult(result) ==
    LET found == result.hasMessages /\ Assistants(result.messages) # {}
        am == result.messages[Max(Assistants(result.messages))]
        text == IF found THEN Or(Or(am.content, am.text), result.text) ELSE result.text
        reasoning == IF found /\ Truthy(am.reasoning) THEN am.reasoning
                     ELSE Or(result.reasoning, Null)
    IN  [text |-> Or(text, StrV(EmptyStr)), reasoning |-> reasoning,
         hasMessages |-> result.hasMessages, messages |-> result.messages]

\* the envelope of a non-streaming reply
ResponseData(model, responseKey, gen) ==
    [NoPayload EXCEPT
        !.keys = {"created_at", "done", responseKey}
                 \cup (IF model.t # "undefined" THEN {"model"} ELSE {})
                 \cup (IF Truthy(gen.reasoning) THEN {"reasoning"} ELSE {})
                 \cup (IF gen.hasMessages THEN {"messages"} ELSE {}),
        !.model = model, !.created_at = Timestamp, !.done = TRUE,
        !.content = gen.text,
        !.reasoning = IF Truthy(gen.reasoning) THEN gen.reasoning ELSE Undefined,
        !.reasoningAt = IF ~Truthy(gen.reasoning) THEN ""
                        ELSE IF responseKey = "message" THEN "message" ELSE "top",
        !.messages = IF gen.hasMessages THEN gen.messages ELSE << >>]

----------------------------------------------------------------------------
(* The NDJSON stream *)

\* response.writeHead(200, {'Content-Type': 'application/x-ndjson', ...})
WriteStreamHead(resp) ==
    [resp EXCEPT !.headersSent = TRUE, !.writeHeads = @ + 1, !.statusCode = 200,
                 !.contentType = "application/x-ndjson"]

\* response.write(JSON.stringify(chunk) + '\n')
WriteLine(resp, chunk) == [resp EXCEPT !.lines = Append(@, chunk)]

\* response.end()
End(resp) == [resp EXCEPT !.ended = TRUE]

\* a chunk with done: false, and the start of the final chunk
ChunkMessageOnly(modelName, done, responseKey, content) ==
    [NoPayload EXCEPT
        !.keys = {"model", "created_at", "done"}
                 \cup (IF responseKey = "message" THEN {"message"} ELSE {}),
        !.model = ModelV("string", modelName), !.created_at = Timestamp,
        !.done = done,
        !.content = IF responseKey = "message" THEN StrV(content) ELSE Undefined]
Chunk(modelName, done, responseKey, content) ==
    [NoPayload EXCEPT
        !.keys = {"model", "created_at", "done", responseKey},
        !.model = ModelV("string", modelName), !.created_at = Timestamp,
        !.done = done, !.content = StrV(content)]

\* the final chunk, with result.reasoning attached when there is one
FinalChunk(modelName, responseKey, reasoning) ==
    LET c == Chunk(modelName, TRUE, responseKey, EmptyStr) IN
    IF Truthy(reasoning)
    THEN [c EXCEPT !.keys = @ \cup {"reasoning"}, !.reasoning = reasoning,
                   !.reasoningAt = IF responseKey = "message" THEN "message" ELSE "top"]
    ELSE c

ErrorChunk(modelName, msg) ==
    [NoPayload EXCEPT
        !.keys = {"model", "created_at", "done", "error"},
        !.model = ModelV("string", modelName), !.created_at = Timestamp,
        !.done = TRUE, !.error = msg]

\* streamResponse up to its try block: throw when no message is left,
\* otherwise write the head of the stream
HeadBeforeCheck(resp, validMessages) ==
    IF Len(validMessages) = 0
    THEN [err |-> NoValidMessages, resp |-> WriteStreamHead(resp)]
    ELSE [err |-> NoMessage, resp |-> WriteStreamHead(resp)]
streamResponseHead(resp, validMessages) ==
    IF Len(validMessages) = 0 THEN [err |-> NoValidMessages, resp |-> resp]
    ELSE [err |-> NoMessage, resp |-> WriteStreamHead(resp)]

\* the catch block of streamResponse
StreamCatchOnlyEnds(resp, modelConfig, msg) == End(resp)
StreamCatchSendsJSON(resp, modelConfig, msg) == sendJSON(resp, ErrorPayload(msg), 500)
StreamCatch(resp, modelConfig, msg) ==
    End(WriteLine(resp, ErrorChunk(modelConfig.model, msg)))

\* the end of the for-await loop of streamResponse
StreamFinish(resp, modelConfig, responseKey, reasoning) ==
    End(WriteLine(resp, FinalChunk(modelConfig.model, responseKey, reasoning)))

\* the catch block of handleModelGenerationRequest
HandlerCatch(resp, msg) ==
    IF ~resp.headersSent THEN sendJSON(resp, ErrorPayload(msg), 500)
    ELSE End(WriteLine(resp, ErrorChunk("unknown", msg)))

Deltas == {Str(0, 2, 0, 21), Str(0, 3, 0, 22), EmptyStr}

----------------------------------------------------------------------------
(* POST /api/chat and POST /api/generate *)

IsGeneration(rt) == rt \in {"POST /api/chat", "POST /api/generate"}

\* the handler gives up: the error reaches its catch block
GenerationFails(r, resp, msg) ==
    /\ local' = [local EXCEPT ![r].caught = msg]
    /\ response' = [response EXCEPT ![r] = HandlerCatch(resp, msg)]
    /\ pc' = [pc EXCEPT ![r] = "done"]

\* the body has arrived: validate the model, extract and prepare the
\* messages, then call generateText, or write the stream's head and call
\* streamText
GenerationReceive(r) ==
    /\ pc[r] = "received"
    /\ IsGeneration(route[r])
    /\ LET mc == validateChatModel(body[r].model, chatModels, providers)
           pm == prepareMessages(ExtractMessages(route[r], body[r]))
           loc == [local[r] EXCEPT !.modelConfig = mc.config, !.validMessages = pm.list]
           head == streamResponseHead(response[r], pm.list)
       IN  IF ~mc.ok THEN GenerationFails(r, response[r], mc.err) /\ UNCHANGED upstream
           ELSE IF ~pm.ok THEN GenerationFails(r, response[r], pm.err) /\ UNCHANGED upstream
           ELSE IF Truthy(body[r].stream) THEN
               IF head.err # NoMessage
               THEN GenerationFails(r, head.resp, head.err) /\ UNCHANGED upstream
               ELSE
               /\ local' = [local EXCEPT ![r] = loc]
               /\ response' = [response EXCEPT ![r] = head.resp]
               /\ upstream' = [upstream EXCEPT ![r].calls =
                                   Append(@, StreamTextCall(mc.config, pm.list,
                                                            body[r].options))]
               /\ pc' = [pc EXCEPT ![r] = "streamText"]
           ELSE IF Len(pm.list) = 0
           THEN GenerationFails(r, response[r], NoValidMessages) /\ UNCHANGED upstream
           ELSE
               /\ local' = [local EXCEPT ![r] = loc]
               /\ upstream' = [upstream EXCEPT ![r].calls =
                                   Append(@, GenerateTextCall(mc.config, pm.list,
                                                              body[r].options))]
               /\ pc' = [pc EXCEPT ![r] = "generateText"]
               /\ UNCHANGED response
    /\ UNCHANGED <<registry, route, body>>

\* generateText has completed: build the envelope and send it, or fail
GenerateTextReturn(r) ==
    /\ pc[r] = "generateText"
    /\ \E result \in GenerateTextOutcomes :
        /\ upstream' = [upstream EXCEPT ![r].replies = Append(@, result)]
        /\ IF result.kind = "throw" THEN GenerationFails(r, response[r], result.err)
           ELSE
               /\ response' = [response EXCEPT ![r] =
                      sendJSON(@, ResponseData(body[r].model, ResponseKey(route[r]),
                                               generateResponseResult(result)), 200)]
               /\ pc' = [pc EXCEPT ![r] = "done"]
               /\ UNCHANGED local
    /\ UNCHANGED <<registry, route, body>>

\* streamText has returned its result, or has thrown
StreamTextReturn(r) ==
    /\ pc[r] = "streamText"
    /\ \/ /\ pc' = [pc EXCEPT ![r] = "textStream"]
          /\ UNCHANGED <<response, upstream>>
       \/ \E e \in UpstreamErrors :
            /\ response' = [response EXCEPT ![r] = StreamCatch(@, local[r].modelConfig, e)]
            /\ upstream' = [upstream EXCEPT ![r].finish = "error", ![r].thrown = e]
            /\ pc' = [pc EXCEPT ![r] = "done"]
    /\ UNCHANGED <<registry, route, body, local>>

\* the text stream yields a delta: one chunk is written
TextStreamDeltaCrossed(r) ==
    /\ pc[r] = "textStream"
    /\ Len(upstream[r].deltas) < MaxDeltas
    /\ \E delta \in Deltas : \E other \in Req :
        /\ other # r => response[other].contentType = "application/x-ndjson"
        /\ response' = [response EXCEPT ![other] =
               WriteLine(@, Chunk(local[r].modelConfig.model, FALSE,
                                  ResponseKey(route[r]), delta))]
        /\ upstream' = [upstream EXCEPT ![r].deltas = Append(@, delta)]
    /\ UNCHANGED <<registry, route, body, local, pc>>
TextStreamDelta(r) ==
    /\ pc[r] = "textStream"
    /\ Len(upstream[r].deltas) < MaxDeltas
    /\ \E delta \in Deltas :
        /\ response' = [response EXCEPT ![r] =
               WriteLine(@, Chunk(local[r].modelConfig.model, FALSE,
                                  ResponseKey(route[r]), delta))]
        /\ upstream' = [upstream EXCEPT ![r].deltas = Append(@, delta)]
    /\ UNCHANGED <<registry, route, body, local, pc>>

\* the text stream is exhausted: the final chunk is written
TextStreamEnd(r) ==
    /\ pc[r] = "textStream"
    /\ \E reasoning \in {Undefined, Text(40)} :
        response' = [response EXCEPT ![r] =
            StreamFinish(@, local[r].modelConfig, ResponseKey(route[r]), reasoning)]
    /\ upstream' = [upstream EXCEPT ![r].finish = "end"]
    /\ pc' = [pc EXCEPT ![r] = "done"]
    /\ UNCHANGED <<registry, route, body, local>>

\* the text stream throws: the error chunk is written
TextStreamError(r) ==
    /\ pc[r] = "textStream"
    /\ \E e \in UpstreamErrors :
        /\ response' = [response EXCEPT ![r] = StreamCatch(@, local[r].modelConfig, e)]
        /\ upstream' = [upstream EXCEPT ![r].finish = "error", ![r].thrown = e]
    /\ pc' = [pc EXCEPT ![r] = "done"]
    /\ UNCHANGED <<registry, route, body, local>>

\* request bodies of the two routes
ChatModelValues ==
    {NoModel, ModelV("string", "my-chat"), ModelV("string", "my-embedding"),
     ModelV("string", "router-chat"), ModelV("string", "nope"),
     ModelV("string", "constructor")}

StreamValues == {Undefined, BoolV(FALSE), BoolV(TRUE)}

OptionValues ==
    {NoOptions, Options(NumV(7), NumV(100), NumV(9)), Options(Undefined, NumV(0), Undefined)}

SomeMessages ==
    {Message("user", StrV(Hello)), Message("assistant", StrV(PaddedHello)),
     Message("system", StrV(Blank)), Message("user", StrV(EmptyStr)),
     Message("user", Undefined), Message("user", NumV(5))}

MessageLists ==
    {<< >>} \cup {<<m>> : m \in SomeMessages}
    \cup {<<m1, m2>> : m1 \in SomeMessages, m2 \in SomeMessages}

ChatBodies ==
    {Body(m, Undefined, Undefined, NoMessages, st, o) :
         m \in ChatModelValues, st \in StreamValues, o \in OptionValues}
    \cup {Body(m, Undefined, Undefined, [present |-> TRUE, list |-> l], st, o) :
              m \in ChatModelValues, l \in MessageLists, st \in StreamValues,
              o \in OptionValues}

GenerateBodies ==
    {Body(m, p, Undefined, NoMessages, st, o) :
         m \in ChatModelValues,
         p \in {Undefined, StrV(EmptyStr), StrV(Blank), StrV(Hello), StrV(PaddedHello),
                NumV(5)},
         st \in StreamValues, o \in OptionValues}

----------------------------------------------------------------------------
(* Specification: the process after startup, with one request in flight    *)

Routes == {"POST /api/chat", "POST /api/generate", "POST /api/embeddings"}

BodiesOf(rt) ==
    IF rt = "POST /api/chat" THEN ChatBodies
    ELSE IF rt = "POST /api/generate" THEN GenerateBodies
    ELSE EmbeddingBodies

\* startup: providers from the environment, loadModels()
InitRegistry ==
    /\ env = EnvKeys
    /\ providers = InitProviders(env)
    /\ models = RawModels
    /\ chatModels = LoadChatModels(models, providers)
    /\ embeddingModels = LoadEmbeddingModels(models, providers)

Init ==
    /\ InitRegistry
    /\ \E rt \in Routes : \E b \in BodiesOf(rt) :
        /\ route = [r \in Req |-> IF r = 1 THEN rt ELSE "none"]
        /\ body = [r \in Req |-> IF r = 1 THEN b ELSE NoBody]
    /\ pc = [r \in Req |-> IF r = 1 THEN "received" ELSE "idle"]
    /\ local = [r \in Req |-> NoLocal]
    /\ upstream = [r \in Req |-> NoUpstream]
    /\ response = [r \in Req |-> NewResponse]

Next ==
    \E r \in Req :
        \/ EmbeddingsReceive(r)
        \/ EmbeddingsFetchReturn(r)
        \/ GenerationReceive(r)
        \/ GenerateTextReturn(r)
        \/ StreamTextReturn(r)
        \/ TextStreamDelta(r)
        \/ TextStreamEnd(r)
        \/ TextStreamError(r)

Spec == Init /\ [][Next]_vars

----------------------------------------------------------------------------
(* Specification: a request, and the same text embedded again by further   *)
(* requests whose handlers interleave with it                              *)

Request(rt, b) == [route |-> rt, body |-> b]

\* {prompt: "hello"}, and a batch whose two elements are the same text
\* after trimming
HelloPrompt ==
    Body(ModelV("string", "my-embedding"), StrV(Hello), Undefined, NoMessages, Undefined,
         NoOptions)

HelloTwice ==
    Body(ModelV("string", "my-embedding"), Undefined,
         ArrV(<<StrV(Hello), StrV(PaddedHello)>>), NoMessages, Undefined, NoOptions)

FirstRequests ==
    {Request("POST /api/embeddings", HelloPrompt),
     Request("POST /api/embeddings", HelloTwice),
     Request("POST /api/chat",
             Body(ModelV("string", "my-chat"), Undefined, Undefined,
                  [present |-> TRUE, list |-> <<Message("user", StrV(Hello))>>],
                  BoolV(TRUE), NoOptions)),
     Request("POST /api/generate",
             Body(ModelV("string", "my-chat"), StrV(Hello), Undefined, NoMessages,
                  Undefined, NoOptions))}

InitRepeat ==
    /\ InitRegistry
    /\ \E first \in FirstRequests : \E again \in SUBSET (Req \ {1}) :
        /\ route = [r \in Req |-> IF r = 1 THEN first.route
                                  ELSE IF r \in again THEN "POST /api/embeddings"
                                  ELSE "none"]
        /\ body = [r \in Req |-> IF r = 1 THEN first.body
                                 ELSE IF r \in again THEN HelloPrompt
                                 ELSE NoBody]
        /\ pc = [r \in Req |-> IF r = 1 \/ r \in again THEN "received" ELSE "idle"]
    /\ local = [r \in Req |-> NoLocal]
    /\ upstream = [r \in Req |-> NoUpstream]
    /\ response = [r \in Req |-> NewResponse]

SpecRepeat == InitRepeat /\ [][Next]_vars

----------------------------------------------------------------------------
----------------------------------------------------------------------------
(* Specification: requests of every kind in flight together, their         *)
(* handlers interleaved at every await                                     *)

\* the first two connections carry any two of the requests, every further
\* connection is idle
InitConcurrent ==
    /\ InitRegistry
    /\ \E reqs \in [Req -> FirstRequests] :
        /\ route = [r \in Req |-> IF r <= 2 THEN reqs[r].route ELSE "none"]
        /\ body = [r \in Req |-> IF r <= 2 THEN reqs[r].body ELSE NoBody]
        /\ pc = [r \in Req |-> IF r <= 2 THEN "received" ELSE "idle"]
    /\ local = [r \in Req |-> NoLocal]
    /\ upstream = [r \in Req |-> NoUpstream]
    /\ response = [r \in Req |-> NewResponse]

SpecConcurrent == InitConcurrent /\ [][Next]_vars

----------------------------------------------------------------------------
(* Specification: requests whose body text is still to be read and parsed  *)
(* by getBody, valid JSON or not                                           *)

\* the text of a request body: nothing, the JSON text of `value`, or a text
\* JSON.parse rejects
RawBody(kind, value) == [kind |-> kind, value |-> value]

\* JSON.parse throws a SyntaxError
ParseThrows(raw) == raw.kind = "malformed"

\* body ? JSON.parse(body) : {}
JSONParse(raw) == IF raw.kind = "empty" THEN NoBody ELSE raw.value

\* the 'end' listener of getBody runs for request r: the promise resolves
\* with the parsed body; a SyntaxError is thrown out of the listener, past
\* the promise and every try block, and ends the process
GetBody(r) ==
    /\ pc[r] = "reading"
    /\ IF ParseThrows(body[r])
       THEN /\ pc' = [q \in Req |-> "exited"]
            /\ UNCHANGED body
       ELSE /\ body' = [body EXCEPT ![r] = JSONParse(@)]
            /\ pc' = [pc EXCEPT ![r] = "received"]
    /\ UNCHANGED <<registry, route, local, upstream, response>>

\* the requests of the concurrent specification as texts, and for each
\* route a request without a body and one whose body is not JSON
ServerRequests ==
    {Request(q.route, RawBody("json", q.body)) : q \in FirstRequests}
    \cup {Request(rt, RawBody(kind, NoBody)) : rt \in Routes, kind \in {"empty", "malformed"}}

InitServer ==
    /\ InitRegistry
    /\ \E reqs \in [Req -> ServerRequests] :
        /\ route = [r \in Req |-> IF r <= 2 THEN reqs[r].route ELSE "none"]
        /\ body = [r \in Req |-> IF r <= 2 THEN reqs[r].body
                                 ELSE RawBody("empty", NoBody)]
        /\ pc = [r \in Req |-> IF r <= 2 THEN "reading" ELSE "idle"]
    /\ local = [r \in Req |-> NoLocal]
    /\ upstream = [r \in Req |-> NoUpstream]
    /\ response = [r \in Req |-> NewResponse]

NextServer == (\E r \in Req : GetBody(r)) \/ Next

SpecServer == InitServer /\ [][NextServer]_vars

(* Specification: response shaping and re-validation applied to any result *)
(* of generateEmbeddings                                                   *)

MaxVectors == 3      \* vectors in a result, and texts in a request, at most

\* sequences of at most n elements of S
SeqUpTo(S, n) == UNION {[1 .. k -> S] : k \in 0 .. n}

\* the route after `await generateEmbeddings(...)`: format, validate, send
EmbeddingsShape(r) ==
    /\ pc[r] = "generated"
    /\ LET sent == SendEmbeddings(response[r], body[r], local[r]) IN
       /\ local' = [local EXCEPT ![r].caught = sent.caught]
       /\ response' = [response EXCEPT ![r] = sent.resp]
    /\ pc' = [pc EXCEPT ![r] = "done"]
    /\ UNCHANGED <<registry, route, body, upstream>>

InitShaping ==
    /\ InitRegistry
    /\ route = [r \in Req |-> IF r = 1 THEN "POST /api/embeddings" ELSE "none"]
    /\ \E m \in {ModelV("string", "my-embedding"), ModelV("array", "my-embedding")} :
        body = [r \in Req |-> IF r = 1
                              THEN Body(m, Undefined, Undefined, NoMessages, Undefined,
                                        NoOptions)
                              ELSE NoBody]
    /\ pc = [r \in Req |-> IF r = 1 THEN "generated" ELSE "idle"]
    /\ \E texts \in SeqUpTo({Hello}, MaxVectors) \ {<< >>} :
       \E vectors \in SeqUpTo({Vector(Hello, d) : d \in 0 .. 2}, MaxVectors) :
       \E single \in BOOLEAN :
        local = [r \in Req |->
                    IF r = 1
                    THEN [NoLocal EXCEPT !.modelConfig = embeddingModels["my-embedding"],
                                         !.inputTexts = texts, !.isSingleText = single,
                                         !.i = Len(texts), !.embeddings = vectors]
                    ELSE NoLocal]
    /\ upstream = [r \in Req |-> NoUpstream]
    /\ response = [r \in Req |-> NewResponse]

NextShaping == \E r \in Req : EmbeddingsShape(r)

SpecShaping == InitShaping /\ [][NextShaping]_vars

----------------------------------------------------------------------------
(* Specification: startup with any environment and any model              *)
(* configuration, then GET /api/tags                                       *)

AllKeys == {"OPENAI_API_KEY", "GEMINI_API_KEY", "OPENROUTER_API_KEY"}

\* the entries a models.json is made of
EntryPool ==
    [n \in DOMAIN RawModels \cup {"null-entry"} |->
        IF n = "null-entry" THEN NullEntry ELSE RawModels[n]]

Restrict(f, S) == [n \in S |-> f[n]]

\* what loadModels reads: a models.json, or the built-in models
ModelSources ==
    {Restrict(EntryPool, S) : S \in SUBSET DOMAIN EntryPool} \cup {BuiltInModels}

EmptyView == [n \in {} |-> NoConfig]

\* loadModels(), after which the server listens; when it exits the views
\* are left as they were, the process is gone
LoadModels ==
    /\ \A r \in Req : pc[r] = "starting"
    /\ \E raw \in ModelSources :
        /\ models' = raw
        /\ IF LoadThrows(raw)
           THEN /\ pc' = [r \in Req |-> "exited"]
                /\ UNCHANGED <<chatModels, embeddingModels>>
           ELSE /\ chatModels' = LoadChatModels(raw, providers)
                /\ embeddingModels' = LoadEmbeddingModels(raw, providers)
                /\ pc' = [r \in Req |-> "idle"]
    /\ UNCHANGED <<env, providers, route, body, local, upstream, response>>

\* an element of availableModels
TagEntry(name, family) == [name |-> name, model |-> name, family |-> family]

RECURSIVE SetToSeq(_)
SetToSeq(S) ==
    IF S = {} THEN << >>
    ELSE LET x == CHOOSE y \in S : TRUE IN <<x>> \o SetToSeq(S \ {x})

\* Object.entries(view).forEach(... availableModels.push(...))
TagsChatFamily(view, family) ==
    [k \in 1 .. Cardinality(DOMAIN view) |-> TagEntry(SetToSeq(DOMAIN view)[k], "chat")]
TagsOf(view, family) ==
    [k \in 1 .. Cardinality(DOMAIN view) |-> TagEntry(SetToSeq(DOMAIN view)[k], family)]

TagsPayload(chat, emb) ==
    [NoPayload EXCEPT !.keys = {"models"},
                      !.models = TagsOf(chat, "chat") \o TagsOf(emb, "embedding")]

\* GET /api/tags: the handler is synchronous
TagsRequest(r) ==
    /\ pc[r] = "idle"
    /\ route' = [route EXCEPT ![r] = "GET /api/tags"]
    /\ response' = [response EXCEPT ![r] =
                        sendJSON(@, TagsPayload(chatModels, embeddingModels), 200)]
    /\ pc' = [pc EXCEPT ![r] = "done"]
    /\ UNCHANGED <<registry, body, local, upstream>>

\* the process before loadModels(): it has exited already when no API key is set
InitStartup ==
    /\ env \in {K \in SUBSET AllKeys : InitProviders(K) # {}}
    /\ providers = InitProviders(env)
    /\ models = EmptyView
    /\ chatModels = EmptyView
    /\ embeddingModels = EmptyView
    /\ route = [r \in Req |-> "none"]
    /\ body = [r \in Req |-> NoBody]
    /\ pc = [r \in Req |-> "starting"]
    /\ local = [r \in Req |-> NoLocal]
    /\ upstream = [r \in Req |-> NoUpstream]
    /\ response = [r \in Req |-> NewResponse]

NextStartup == LoadModels \/ \E r \in Req : TagsRequest(r)

SpecStartup == InitStartup /\ [][NextStartup]_vars

----------------------------------------------------------------------------
(* Vocabulary of the properties *)

IsEmbeddings(r) == route[r] = "POST /api/embeddings"

\* the texts a request asks to embed, read off its body
RequestTexts(b) ==
    IF Truthy(b.prompt) THEN <<Trim(b.prompt.s)>>
    ELSE IF IsArray(b.input) THEN [k \in 1 .. Len(b.input.a) |-> Trim(b.input.a[k].s)]
    ELSE <<Trim(b.input.s)>>

\* an upstream call that succeeded: a 2xx reply with a non-empty vector
SuccessfulReply(o) ==
    o.kind = "response" /\ ResponseOk(o) /\ o.hasValues /\ Len(o.values) > 0

\* an upstream call that failed: the fetch rejected, or a non-2xx reply
UpstreamFailed(o) == o.kind = "reject" \/ ~ResponseOk(o)

\* the vectors an envelope carries, in order
ResponseVectors(p) ==
    IF "embedding" \in p.keys THEN <<p.embedding>>
    ELSE IF "embeddings" \in p.keys THEN p.embeddings
    ELSE << >>

\* exactly one complete JSON error response, and nothing else, was sent
SingleErrorResponse(resp) ==
    /\ resp.headersSent /\ resp.writeHeads = 1 /\ resp.ended
    /\ resp.contentType = "application/json"
    /\ resp.statusCode >= 400
    /\ resp.json.keys = {"error"}
    /\ resp.lines = << >>

----------------------------------------------------------------------------
(* C1: when an embedding request with N texts (1 <= N <= 100, model given  *)
(* as a string) has finished and all its N upstream calls succeeded, the   *)
(* response is a 200 envelope with exactly N vectors, the k-th vector is   *)
(* the one the upstream returned to the k-th call, and the k-th call       *)
(* carried the k-th input text.                                            *)
C1_VectorsInInputOrder ==
    \A r \in Req :
        LET n == Len(upstream[r].replies) IN
        (/\ IsEmbeddings(r) /\ pc[r] = "done"
         /\ body[r].model.t = "string"
         /\ n >= 1 /\ n <= maxTexts
         /\ n = Len(RequestTexts(body[r]))
         /\ \A k \in 1 .. n : SuccessfulReply(upstream[r].replies[k]))
        => /\ response[r].statusCode = 200
           /\ response[r].ended /\ response[r].writeHeads = 1
           /\ Len(ResponseVectors(response[r].json)) = n
           /\ \A k \in 1 .. n :
                /\ ResponseVectors(response[r].json)[k] = upstream[r].replies[k].values
                /\ upstream[r].calls[k].text = RequestTexts(body[r])[k]

\* a batch of maxTexts texts was answered with maxTexts vectors
C1_Witness ==
    \E r \in Req :
        /\ IsEmbeddings(r) /\ pc[r] = "done"
        /\ response[r].statusCode = 200
        /\ Len(upstream[r].replies) = maxTexts
        /\ Len(ResponseVectors(response[r].json)) = maxTexts
        /\ ResponseVectors(response[r].json)[1] # ResponseVectors(response[r].json)[2]

(* C2: when the upstream call for item i of an embedding batch fails, it   *)
(* is the last call of the request (no call for a later item), the handler *)
(* is finished, and the client has received exactly one response, an error *)
(* response without vectors whose status and message are the               *)
(* classification of item i's failure.                                     *)
C2_BatchAbortsAtFailedItem ==
    \A r \in Req : \A k \in 1 .. Len(upstream[r].replies) :
        (IsEmbeddings(r) /\ UpstreamFailed(upstream[r].replies[k]))
        => /\ k = Len(upstream[r].replies)
           /\ Len(upstream[r].calls) = k
           /\ pc[r] = "done"
           /\ SingleErrorResponse(response[r])
           /\ ResponseVectors(response[r].json) = << >>
           /\ LET c == ClassifyEmbeddingError(ItemError(upstream[r].replies[k], k - 1))
              IN  /\ response[r].statusCode = c.status
                  /\ response[r].json.error = c.message

\* the second call of a three-text batch failed and the request is over
C2_Witness ==
    \E r \in Req :
        /\ IsEmbeddings(r) /\ pc[r] = "done"
        /\ Len(local[r].inputTexts) = 3
        /\ Len(upstream[r].replies) = 2
        /\ SuccessfulReply(upstream[r].replies[1])
        /\ UpstreamFailed(upstream[r].replies[2])
        /\ response[r].statusCode >= 400

----------------------------------------------------------------------------
(* Streaming *)

\* the response is an NDJSON stream: the streaming head was written
IsStream(r) == response[r].contentType = "application/x-ndjson"

\* the positions of the objects with done: true
DoneLines(resp) == {k \in 1 .. Len(resp.lines) : resp.lines[k].done}

\* every message is dropped by the filter: no content, or only whitespace
AllFilteredOut(messages) ==
    \A k \in 1 .. Len(messages) :
        \/ ~Truthy(messages[k].content)
        \/ IsString(messages[k].content) /\ Trim(messages[k].content.s) = EmptyStr

(* C3: a response whose streaming head was sent never holds more than one  *)
(* object with done: true; such an object is the last one written and the  *)
(* connection is ended with it; and once the upstream stream is over,      *)
(* exhausted or failed, the terminal object is there and the connection is *)
(* ended.                                                                  *)
C3_ExactlyOneTerminalObject ==
    \A r \in Req :
        IsStream(r)
        => /\ Cardinality(DoneLines(response[r])) <= 1
           /\ DoneLines(response[r]) # {}
                => DoneLines(response[r]) = {Len(response[r].lines)}
           /\ response[r].ended <=> DoneLines(response[r]) # {}
           /\ upstream[r].finish # "" <=> response[r].ended
           /\ pc[r] = "done" <=> response[r].ended

\* a stream that failed after a delta, closed with its terminal object
C3_Witness ==
    \E r \in Req :
        /\ IsStream(r) /\ response[r].ended
        /\ upstream[r].finish = "error"
        /\ Len(upstream[r].deltas) = MaxDeltas
        /\ DoneLines(response[r]) = {MaxDeltas + 1}

(* C4: in a stream, the k-th object written is a done: false object that   *)
(* carries the k-th delta of the provider under the route's key; when the  *)
(* provider's stream ends after n deltas, exactly one more object follows, *)
(* with done: true and empty content, and it is the last one.              *)
C4_DeltasThenTerminal ==
    \A r \in Req :
        IsStream(r)
        => LET n == Len(upstream[r].deltas)
               lines == response[r].lines
           IN  /\ Len(lines) >= n
               /\ \A k \in 1 .. n :
                    /\ ~lines[k].done
                    /\ ResponseKey(route[r]) \in lines[k].keys
                    /\ lines[k].content = StrV(upstream[r].deltas[k])
                    /\ "error" \notin lines[k].keys
               /\ upstream[r].finish = "" => Len(lines) = n
               /\ upstream[r].finish = "end"
                    => /\ Len(lines) = n + 1
                       /\ lines[n + 1].done
                       /\ ResponseKey(route[r]) \in lines[n + 1].keys
                       /\ lines[n + 1].content = StrV(EmptyStr)
                       /\ "error" \notin lines[n + 1].keys
                       /\ response[r].ended

\* a generate stream of two different deltas that ended normally
C4_Witness ==
    \E r \in Req :
        /\ IsStream(r) /\ upstream[r].finish = "end"
        /\ route[r] = "POST /api/generate"
        /\ Len(upstream[r].deltas) = 2
        /\ upstream[r].deltas[1] # upstream[r].deltas[2]
        /\ Len(response[r].lines) = 3

(* C5: when the streaming call fails after the head was sent, no second    *)
(* head and no JSON error response is written: the status stays 200, one   *)
(* object with done: true and error = the failure's message is appended    *)
(* after the delta objects, and the connection is ended.                   *)
C5_StreamFailureInBand ==
    \A r \in Req :
        upstream[r].finish = "error"
        => LET n == Len(upstream[r].deltas)
               lines == response[r].lines
           IN  /\ response[r].writeHeads = 1
               /\ response[r].statusCode = 200
               /\ IsStream(r)
               /\ response[r].json = NoPayload
               /\ Len(lines) = n + 1
               /\ lines[n + 1].done
               /\ "error" \in lines[n + 1].keys
               /\ lines[n + 1].error = upstream[r].thrown
               /\ lines[n + 1].error # NoMessage
               /\ response[r].ended
               /\ pc[r] = "done"

\* a stream that failed before its first delta
C5_Witness ==
    \E r \in Req :
        /\ upstream[r].finish = "error"
        /\ upstream[r].deltas = << >>
        /\ Len(response[r].lines) = 1
        /\ response[r].statusCode = 200

(* C6: a streaming chat or generate request whose messages are all dropped *)
(* by the filter never gets the streaming head: nothing is written as      *)
(* NDJSON, and when the handler is done the client has one JSON {error}    *)
(* response with an error status.                                          *)
C6_NoStreamWithoutMessages ==
    \A r \in Req :
        (/\ IsGeneration(route[r]) /\ Truthy(body[r].stream)
         /\ AllFilteredOut(ExtractMessages(route[r], body[r])))
        => /\ ~IsStream(r)
           /\ response[r].lines = << >>
           /\ pc[r] = "done" => SingleErrorResponse(response[r])

\* a streaming chat request for a chat model, with messages that are all
\* blank, was answered with the JSON error
C6_Witness ==
    \E r \in Req :
        /\ route[r] = "POST /api/chat" /\ Truthy(body[r].stream)
        /\ Len(ExtractMessages(route[r], body[r])) > 0
        /\ AllFilteredOut(ExtractMessages(route[r], body[r]))
        /\ ModelKey(body[r].model) \in DOMAIN chatModels
        /\ pc[r] = "done"
        /\ response[r].statusCode = 500
        /\ response[r].json.error = NoValidMessages

(* C7: for a chat or generate request whose messages are all empty after   *)
(* trimming (also without `messages`, or without `prompt`), streaming or   *)
(* not, no upstream generation call is ever issued; the request ends with  *)
(* one error response, and when its model is in the chat registry the      *)
(* failure is 'No valid messages found'.                                   *)
C7_EmptyMessagesNeverSent ==
    \A r \in Req :
        (IsGeneration(route[r]) /\ AllFilteredOut(ExtractMessages(route[r], body[r])))
        => /\ upstream[r].calls = << >>
           /\ pc[r] # "received" => pc[r] = "done"
           /\ pc[r] = "done"
                => /\ SingleErrorResponse(response[r])
                   /\ ModelKey(body[r].model) \in DOMAIN chatModels
                        => /\ local[r].caught = NoValidMessages
                           /\ response[r].json.error = NoValidMessages

\* a non-streaming generate request without a prompt was rejected
C7_Witness ==
    \E r \in Req :
        /\ route[r] = "POST /api/generate" /\ ~Truthy(body[r].stream)
        /\ body[r].prompt = Undefined
        /\ ModelKey(body[r].model) \in DOMAIN chatModels
        /\ pc[r] = "done"
        /\ local[r].caught = NoValidMessages
        /\ upstream[r].calls = << >>

----------------------------------------------------------------------------
(* Embedding request shapes *)

\* validateEmbeddingRequest accepted the body of request r
Accepted(r) == validateEmbeddingRequest(body[r], embeddingModels, providers).ok

\* the model of the body is a name of the embedding registry
EmbeddingModelKnown(b) ==
    ModelTruthy(b.model) /\ ModelKey(b.model) \in DOMAIN embeddingModels

\* every element is a string that is non-empty after trimming and not
\* longer than maxTextLength
ValidStrings(a) ==
    \A k \in 1 .. Len(a) :
        /\ IsString(a[k]) /\ Trim(a[k].s) # EmptyStr
        /\ StrLen(Trim(a[k].s)) <= maxTextLength

(* C8: for every body validateEmbeddingRequest accepts, isSingleText is    *)
(* true if and only if the text was taken from the prompt field (the       *)
(* prompt is truthy); a text taken from the input field never gives        *)
(* isSingleText, whatever else the body holds.                             *)
C8_SingleTextIffFromPrompt ==
    \A r \in Req :
        (IsEmbeddings(r) /\ pc[r] # "received" /\ Accepted(r))
        => (local[r].isSingleText <=> Truthy(body[r].prompt))

(* C9: an embedding request answered with 200 is answered in the shape of  *)
(* the field its text came from.  {prompt: x} gets {embedding: v, model,   *)
(* created_at}, v being the one vector the upstream returned for the       *)
(* trimmed x; {input: x} gets {embeddings: [{embedding: v}], model,        *)
(* created_at} for the one vector of the trimmed x; and whenever the texts *)
(* are taken from an input array, of one element or more, the answer has   *)
(* the embeddings shape with one entry per element.                        *)
C9_EnvelopeShapeByField ==
    \A r \in Req :
        (IsEmbeddings(r) /\ pc[r] = "done" /\ response[r].statusCode = 200)
        => LET b == body[r]
               json == response[r].json
               replies == upstream[r].replies
           IN  /\ json.model = b.model /\ json.created_at = Timestamp
               /\ (Truthy(b.prompt) /\ b.input = Undefined)
                    => /\ json.keys = {"embedding", "model", "created_at"}
                       /\ Len(replies) = 1
                       /\ json.embedding = replies[1].values
                       /\ upstream[r].calls[1].text = Trim(b.prompt.s)
               /\ (b.prompt = Undefined /\ IsString(b.input))
                    => /\ json.keys = {"embeddings", "model", "created_at"}
                       /\ Len(replies) = 1
                       /\ json.embeddings = <<replies[1].values>>
                       /\ upstream[r].calls[1].text = Trim(b.input.s)
               /\ (~Truthy(b.prompt) /\ IsArray(b.input))
                    => /\ json.keys = {"embeddings", "model", "created_at"}
                       /\ Len(json.embeddings) = Len(b.input.a)

(* C10: an embedding request without a usable prompt whose input is an     *)
(* array of length 0, or an array of more than maxTexts valid strings,     *)
(* never causes an upstream call and ends with one error response; when    *)
(* its model is in the embedding registry the message contains 'cannot be  *)
(* empty', respectively 'Maximum allowed'.                                 *)
C10_ArrayLengthLimits ==
    \A r \in Req :
        (IsEmbeddings(r) /\ ~Truthy(body[r].prompt) /\ IsArray(body[r].input))
        => LET a == body[r].input.a
               rejectedWith(pat) ==
                   /\ upstream[r].calls = << >>
                   /\ pc[r] # "received" => pc[r] = "done"
                   /\ pc[r] = "done"
                        => /\ SingleErrorResponse(response[r])
                           /\ EmbeddingModelKnown(body[r])
                                => /\ Includes(local[r].caught, pat)
                                   /\ Includes(response[r].json.error, pat)
           IN  /\ Len(a) = 0 => rejectedWith(<<"cannot", "be", "empty">>)
               /\ (Len(a) > maxTexts /\ ValidStrings(a))
                    => rejectedWith(<<"Maximum", "allowed">>)

\* an array of maxTexts + 1 valid strings was rejected
C10_Witness ==
    \E r \in Req :
        /\ IsEmbeddings(r) /\ pc[r] = "done"
        /\ ~Truthy(body[r].prompt) /\ IsArray(body[r].input)
        /\ Len(body[r].input.a) = maxTexts + 1 /\ ValidStrings(body[r].input.a)
        /\ EmbeddingModelKnown(body[r])
        /\ Includes(response[r].json.error, <<"Maximum", "allowed">>)
        /\ response[r].statusCode = 400

----------------------------------------------------------------------------
(* Error responses *)

\* the Error validateEmbeddingRequest throws for the body of request r
ValidationError(r) == validateEmbeddingRequest(body[r], embeddingModels, providers).err

(* C11: every embedding request that validateEmbeddingRequest rejects ends *)
(* with exactly one response, HTTP 400 with the body {error: m} where m is *)
(* the message of the validation failure, unchanged; a body without model  *)
(* gets 'Missing required field: model', and a model name that is not in   *)
(* the embedding registry (unknown, or a chat model) gets a message that   *)
(* contains 'not supported'.                                               *)
C11_ValidationFailuresAre400 ==
    \A r \in Req :
        (IsEmbeddings(r) /\ pc[r] # "received" /\ ~Accepted(r))
        => /\ pc[r] = "done"
           /\ SingleErrorResponse(response[r])
           /\ response[r].statusCode = 400
           /\ response[r].json.error = ValidationError(r)
           /\ response[r].json.error # NoMessage
           /\ ~ModelTruthy(body[r].model)
                => response[r].json.error = <<"Missing", "required", "field", ":", "model">>
           /\ (ModelTruthy(body[r].model) /\ ~EmbeddingModelKnown(body[r]))
                => Includes(response[r].json.error, <<"not", "supported">>)

\* the status the classification table gives to a failure of the chat and
\* generate endpoints: their validation failures are 400, every other
\* failure is classified as on the embedding endpoint
TableStatus(msg) ==
    IF Includes(msg, <<"not", "supported">>) \/ msg = NoValidMessages THEN 400
    ELSE ClassifyEmbeddingError(msg).status

(* C12: on /api/chat and /api/generate, an error response sent before the  *)
(* headers is one JSON response {error: string} whose status is the one    *)
(* the classification table gives to the failure: 400 for an unknown or    *)
(* non-chat model and for 'No valid messages found', 401 for an            *)
(* availability or authentication failure, and so on.                      *)
C12_GenerationErrorsClassified ==
    \A r \in Req :
        (IsGeneration(route[r]) /\ pc[r] = "done" /\ local[r].caught # NoMessage)
        => /\ SingleErrorResponse(response[r])
           /\ response[r].json.error # NoMessage
           /\ response[r].statusCode = TableStatus(local[r].caught)

\* the fixed messages of the classification
RateLimitMessage ==
    <<"Rate", "limit", "exceeded", ".", "Please", "try", "again", "later", ".">>

\* the upstream replied to a call of request r with HTTP status st
UpstreamStatus(r, st) ==
    \E k \in 1 .. Len(upstream[r].replies) :
        upstream[r].replies[k].kind = "response" /\ upstream[r].replies[k].status = st

\* no upstream error body is in the message
NoUpstreamDetail(msg) == \A d \in ErrorBodies : ~Includes(msg, d)

UnavailableMessage ==
    <<"Service", "temporarily", "unavailable", ".", "Please", "try", "again", "later", ".">>

(* C14: when the upstream answers an embedding call with HTTP 503, the     *)
(* request ends with exactly one response, HTTP 503 with the body          *)
(* {error: 'Service temporarily unavailable. Please try again later.'}.    *)
C14_UnavailableIs503Generic ==
    \A r \in Req :
        (IsEmbeddings(r) /\ UpstreamStatus(r, 503))
        => /\ pc[r] = "done"
           /\ SingleErrorResponse(response[r])
           /\ response[r].statusCode = 503
           /\ response[r].json.error = UnavailableMessage

InternalErrorMessage == <<"Internal", "server", "error">>

(* C15: on the chat, generate and embeddings endpoints, a failure that     *)
(* reaches the handler's catch block and that the classification table     *)
(* puts in none of the 400, 401, 429 and 503 classes is answered with one  *)
(* response, HTTP 500 with the body {error: 'Internal server error'}; the  *)
(* message of the failure is not sent.                                     *)
C15_UnclassifiedIs500Generic ==
    \A r \in Req :
        (pc[r] = "done" /\ local[r].caught # NoMessage
         /\ TableStatus(local[r].caught) = 500)
        => /\ SingleErrorResponse(response[r])
           /\ response[r].statusCode = 500
           /\ response[r].json.error = InternalErrorMessage
           /\ ~Includes(response[r].json.error, local[r].caught)

----------------------------------------------------------------------------
(* Caching *)

\* request r is an embedding request that was answered with 200
Embedded(r) == IsEmbeddings(r) /\ pc[r] = "done" /\ response[r].statusCode = 200

(* C16: an embedding request with N texts that is answered with 200 has    *)
(* issued exactly N upstream calls, the k-th of them for its k-th text,    *)
(* and its k-th vector is the reply to its own k-th call, also when a text *)
(* occurs twice in the batch or was embedded by another request: whenever  *)
(* the upstream gave different vectors to two calls for the same text, the *)
(* two vectors sent to the clients differ.                                 *)
C16_NoCaching ==
    /\ \A r \in Req :
        Embedded(r)
        => LET texts == RequestTexts(body[r]) IN
           /\ Len(upstream[r].calls) = Len(texts)
           /\ Len(upstream[r].replies) = Len(texts)
           /\ Len(ResponseVectors(response[r].json)) = Len(texts)
           /\ \A k \in 1 .. Len(texts) :
                /\ upstream[r].calls[k].text = texts[k]
                /\ ResponseVectors(response[r].json)[k] = upstream[r].replies[k].values
    /\ \A r1 \in Req, r2 \in Req :
        (Embedded(r1) /\ Embedded(r2))
        => \A k1 \in 1 .. Len(upstream[r1].replies), k2 \in 1 .. Len(upstream[r2].replies) :
             (/\ upstream[r1].calls[k1].text = upstream[r2].calls[k2].text
              /\ upstream[r1].replies[k1].values # upstream[r2].replies[k2].values)
             => ResponseVectors(response[r1].json)[k1]
                    # ResponseVectors(response[r2].json)[k2]

\* a batch that holds the same text twice got two different vectors, and a
\* second request for that text got a vector that differs from the first one
C16_Witness ==
    \E r1 \in Req, r2 \in Req :
        /\ r1 # r2 /\ Embedded(r1) /\ Embedded(r2)
        /\ Len(upstream[r1].calls) = 2
        /\ upstream[r1].calls[1].text = upstream[r1].calls[2].text
        /\ upstream[r2].calls[1].text = upstream[r1].calls[1].text
        /\ ResponseVectors(response[r1].json)[1] # ResponseVectors(response[r1].json)[2]
        /\ ResponseVectors(response[r2].json)[1] # ResponseVectors(response[r1].json)[1]

----------------------------------------------------------------------------
(* Re-validation of the envelope *)

(* C17: an embedding request is answered with 200 only with an envelope    *)
(* that validateEmbeddingResponse accepts: it holds as many vectors as the *)
(* request has input texts (one, when it has the single shape), every      *)
(* vector is non-empty, and model and created_at are non-empty strings.    *)
(* An envelope of the embeddings shape with M vectors for N texts, M # N,  *)
(* assembled after the loop over the N texts has finished, is rejected     *)
(* with 'Expected N embeddings but got M'.  Whenever the envelope is       *)
(* rejected the client gets one error response and no vector.              *)
C17_OnlyValidEnvelopesSent ==
    \A r \in Req :
        (IsEmbeddings(r) /\ pc[r] = "done")
        => LET n == Len(local[r].inputTexts)
               m == Len(local[r].embeddings)
               json == response[r].json
               vectors == ResponseVectors(json)
           IN  /\ response[r].statusCode = 200
                    => /\ validateEmbeddingResponse(json, n) = NoMessage
                       /\ Len(vectors) = n
                       /\ \A k \in 1 .. n : Len(vectors[k]) > 0
                       /\ "embedding" \in json.keys => n = 1
                       /\ {"model", "created_at"} \subseteq json.keys
                       /\ json.model.t = "string" /\ json.model.name # ""
                       /\ json.created_at # ""
               /\ (~local[r].isSingleText /\ n > 0 /\ local[r].i = n /\ m # n)
                    => local[r].caught
                           = <<"Expected", Tok(n), "embeddings", "but", "got", Tok(m)>>
               /\ response[r].statusCode # 200
                    => /\ SingleErrorResponse(response[r])
                       /\ vectors = << >>

\* two vectors for three texts were rejected, and the client got an error
C17_Witness ==
    \E r \in Req :
        /\ IsEmbeddings(r) /\ pc[r] = "done"
        /\ Len(local[r].inputTexts) = 3 /\ Len(local[r].embeddings) = 2
        /\ local[r].caught = <<"Expected", "3", "embeddings", "but", "got", "2">>
        /\ response[r].statusCode >= 400

----------------------------------------------------------------------------
(* The registry and GET /api/tags *)

\* the positions of the model list of a tags response that name model n
Listed(list, n) == {k \in 1 .. Len(list) : list[k].name = n}

(* C18: the response to GET /api/tags is a 200 JSON object whose model     *)
(* list names every model of the chat view exactly once with family        *)
(* 'chat', every model of the embedding view exactly once with family      *)
(* 'embedding', and nothing else: no entry of the configuration that was   *)
(* skipped at load is listed.  When the embedding view is empty every      *)
(* listed model has family 'chat'.                                         *)
C18_TagsListBothViews ==
    \A r \in Req :
        (route[r] = "GET /api/tags" /\ pc[r] = "done")
        => LET list == response[r].json.models IN
           /\ response[r].statusCode = 200 /\ response[r].ended
           /\ response[r].json.keys = {"models"}
           /\ \A n \in DOMAIN chatModels :
                /\ Cardinality(Listed(list, n)) = 1
                /\ \A k \in Listed(list, n) : list[k].family = "chat" /\ list[k].model = n
           /\ \A n \in DOMAIN embeddingModels :
                /\ Cardinality(Listed(list, n)) = 1
                /\ \A k \in Listed(list, n) :
                     list[k].family = "embedding" /\ list[k].model = n
           /\ \A k \in 1 .. Len(list) :
                /\ list[k].name \in DOMAIN models
                /\ LoadableEntry(models[list[k].name], providers)
                /\ ModelType(models[list[k].name]) = list[k].family
           /\ DOMAIN embeddingModels = {}
                => \A k \in 1 .. Len(list) : list[k].family = "chat"

\* a tags response that lists a chat model and an embedding model while the
\* configuration holds an entry that was skipped
C18_Witness ==
    \E r \in Req :
        /\ route[r] = "GET /api/tags" /\ pc[r] = "done"
        /\ \E k \in 1 .. Len(response[r].json.models) :
             response[r].json.models[k].family = "chat"
        /\ \E k \in 1 .. Len(response[r].json.models) :
             response[r].json.models[k].family = "embedding"
        /\ \E n \in DOMAIN models : Listed(response[r].json.models, n) = {}

\* an entry that has provider and model, and whose provider is credentialed
ValidEntry(config) ==
    /\ ~config.isNull
    /\ config.provider # "" /\ config.model # ""
    /\ config.provider \in InitProviders(env)

(* C19: once loadModels has read a configuration, whatever it holds: the   *)
(* process is still running; an entry is in the chat view or in the        *)
(* embedding view only if it has provider and model and its provider is    *)
(* credentialed; such an entry is in the chat view only when it has no     *)
(* type (or the type 'chat'), in the embedding view only when its type is  *)
(* 'embedding', and in neither view with any other type, and this for      *)
(* every such entry, whatever other entries the configuration holds; the   *)
(* two views have no name in common.                                       *)
C19_RegistryViews ==
    (\E r \in Req : pc[r] # "starting")
    => /\ \A r \in Req : pc[r] # "exited"
       /\ DOMAIN chatModels \cap DOMAIN embeddingModels = {}
       /\ \A n \in DOMAIN models :
            LET c == models[n]
                inChat == n \in DOMAIN chatModels
                inEmbedding == n \in DOMAIN embeddingModels
            IN  /\ (inChat \/ inEmbedding) => ValidEntry(c)
                /\ (ValidEntry(c) /\ c.type \in {"", "chat"})
                     => (inChat /\ ~inEmbedding /\ chatModels[n] = c)
                /\ (ValidEntry(c) /\ c.type = "embedding")
                     => (inEmbedding /\ ~inChat /\ embeddingModels[n] = c)
                /\ (ValidEntry(c) /\ c.type \notin {"", "chat", "embedding"})
                     => (~inChat /\ ~inEmbedding)

----------------------------------------------------------------------------
(* Validation before any upstream call *)

\* a text that may be embedded: non-empty after trimming and not too long
ValidText(v) ==
    IsString(v) /\ Trim(v.s) # EmptyStr /\ StrLen(Trim(v.s)) <= maxTextLength

\* a body that must fail request validation, read off the body itself: no
\* model or a model that is no key of the embedding view, no text, a text of
\* the wrong type, an empty or too long text, an empty or too long array
InvalidRequest(b) ==
    \/ ~ModelTruthy(b.model)
    \/ ModelKey(b.model) \notin DOMAIN embeddingModels
    \/ Truthy(b.prompt) /\ ~ValidText(b.prompt)
    \/ ~Truthy(b.prompt) /\ ~Truthy(b.input)
    \/ ~Truthy(b.prompt) /\ Truthy(b.input) /\ ~IsArray(b.input) /\ ~ValidText(b.input)
    \/ /\ ~Truthy(b.prompt) /\ IsArray(b.input)
       /\ \/ Len(b.input.a) = 0
          \/ Len(b.input.a) > maxTexts
          \/ \E k \in 1 .. Len(b.input.a) : ~ValidText(b.input.a[k])

(* C20: an embedding request whose body must fail validation never causes  *)
(* an upstream call: validateEmbeddingRequest rejects it, the handler goes *)
(* from the arrival of the body straight to its end without entering       *)
(* generateEmbeddings, and the client gets one error response whose status *)
(* is the classification of the validation failure.                        *)
C20_NoUpstreamCallOnInvalidRequest ==
    \A r \in Req :
        (IsEmbeddings(r) /\ InvalidRequest(body[r]))
        => /\ ~Accepted(r)
           /\ upstream[r].calls = << >>
           /\ upstream[r].replies = << >>
           /\ local[r].i = 0 /\ local[r].embeddings = << >>
           /\ pc[r] \in {"received", "done"}
           /\ pc[r] = "done"
                => /\ local[r].caught = ValidationError(r)
                   /\ SingleErrorResponse(response[r])
                   /\ response[r].statusCode
                          = ClassifyEmbeddingError(ValidationError(r)).status

\* a batch whose second element is blank was rejected without a call
C20_Witness ==
    \E r \in Req :
        /\ IsEmbeddings(r) /\ pc[r] = "done"
        /\ EmbeddingModelKnown(body[r])
        /\ ~Truthy(body[r].prompt) /\ IsArray(body[r].input)
        /\ Len(body[r].input.a) = 3
        /\ body[r].input.a[2] = StrV(Blank)
        /\ upstream[r].calls = << >>
        /\ response[r].statusCode = 400

----------------------------------------------------------------------------
(* Upstream replies without a usable vector *)

\* a 2xx reply whose result has no values array, or an empty one
MissingOrEmptyVector(o) ==
    o.kind = "response" /\ ResponseOk(o) /\ (~o.hasValues \/ Len(o.values) = 0)

(* C21: when the upstream call for item i of an embedding request returns  *)
(* 2xx with a missing or empty vector, it is the last call of the request  *)
(* (no call for item i+1), the handler is finished, and the client has     *)
(* received exactly one error response and no 200 envelope.                *)
C21_MissingVectorAbortsBatch ==
    \A r \in Req : \A k \in 1 .. Len(upstream[r].replies) :
        (IsEmbeddings(r) /\ MissingOrEmptyVector(upstream[r].replies[k]))
        => /\ k = Len(upstream[r].replies)
           /\ Len(upstream[r].calls) = k
           /\ pc[r] = "done"
           /\ SingleErrorResponse(response[r])
           /\ response[r].statusCode # 200

----------------------------------------------------------------------------
(* The texts validateEmbeddingRequest returns *)

\* the values the body offers as texts: the prompt when it is truthy, else
\* the elements of the input array, else the input itself
OfferedTexts(b) ==
    IF Truthy(b.prompt) THEN <<b.prompt>>
    ELSE IF IsArray(b.input) THEN b.input.a
    ELSE <<b.input>>

\* the offered values that are strings longer than maxTextLength when trimmed
TooLongOffered(b) ==
    {k \in 1 .. Len(OfferedTexts(b)) :
         /\ IsString(OfferedTexts(b)[k])
         /\ StrLen(Trim(OfferedTexts(b)[k].s)) > maxTextLength}

\* nothing but the length of a text is wrong with the body
OnlyLengthAtFault(b) ==
    /\ EmbeddingModelKnown(b)
    /\ Len(OfferedTexts(b)) <= maxTexts
    /\ \A k \in 1 .. Len(OfferedTexts(b)) :
           IsString(OfferedTexts(b)[k]) /\ Trim(OfferedTexts(b)[k].s) # EmptyStr

(* C22: when validateEmbeddingRequest has accepted a body, inputTexts has  *)
(* between 1 and maxTexts entries and every entry equals its own trim, is  *)
(* non-empty and has at most maxTextLength characters.  A body offering a  *)
(* text that is longer than maxTextLength after trimming is never          *)
(* accepted, and when nothing else is wrong with it the error names the    *)
(* (0-based) index of the first such text.                                 *)
C22_AcceptedTextsTrimmedAndBounded ==
    \A r \in Req :
        (IsEmbeddings(r) /\ pc[r] # "received")
        => LET texts == local[r].inputTexts
               long == TooLongOffered(body[r])
           IN  /\ Accepted(r)
                    => /\ Len(texts) >= 1 /\ Len(texts) <= maxTexts
                       /\ texts = RequestTexts(body[r])
                       /\ \A k \in 1 .. Len(texts) :
                              /\ texts[k] = Trim(texts[k])
                              /\ texts[k] # EmptyStr
                              /\ StrLen(texts[k]) >= 1
                              /\ StrLen(texts[k]) <= maxTextLength
               /\ long # {}
                    => /\ ~Accepted(r)
                       /\ upstream[r].calls = << >>
                       /\ OnlyLengthAtFault(body[r])
                            => Includes(local[r].caught,
                                        <<"at", "index", Tok(Min(long) - 1), "is", "too",
                                          "long">>)

\* a padded prompt of exactly maxTextLength characters between the padding
\* was accepted
C22_Witness ==
    \E r \in Req :
        /\ IsEmbeddings(r) /\ pc[r] # "received" /\ Accepted(r)
        /\ body[r].prompt = StrV(LongText)
        /\ StrLen(body[r].prompt.s) > maxTextLength
        /\ StrLen(local[r].inputTexts[1]) = maxTextLength

----------------------------------------------------------------------------
(* Sequential upstream calls *)

\* the upstream calls of request r that have been issued and not yet answered
InFlight(r) == Len(upstream[r].calls) - Len(upstream[r].replies)

(* C23: the upstream calls of an embedding request are issued one at a     *)
(* time in input order: at most one call is unanswered at any moment, the  *)
(* k-th call carries the k-th text of inputTexts, and when the call for    *)
(* text k+1 has been issued the call for text k has been answered with a   *)
(* 2xx reply from which the loop took a vector.                            *)
C23_CallsStrictlySequential ==
    \A r \in Req :
        IsEmbeddings(r)
        => LET calls == upstream[r].calls
               replies == upstream[r].replies
           IN  /\ InFlight(r) \in {0, 1}
               /\ InFlight(r) = 1 <=> pc[r] = "fetch"
               /\ Len(calls) <= Len(local[r].inputTexts)
               /\ \A k \in 1 .. Len(calls) :
                      /\ calls[k].api = "embedContent"
                      /\ calls[k].text = local[r].inputTexts[k]
               /\ \A k \in 1 .. Len(calls) - 1 :
                      /\ replies[k].kind = "response" /\ ResponseOk(replies[k])
                      /\ ItemError(replies[k], k - 1) = NoMessage
                      /\ local[r].embeddings[k] = replies[k].values

\* the third call of a batch is in flight, the first two have been answered
C23_Witness ==
    \E r \in Req :
        /\ IsEmbeddings(r) /\ pc[r] = "fetch"
        /\ Len(local[r].inputTexts) >= 3
        /\ Len(upstream[r].calls) = 3
        /\ Len(upstream[r].replies) = 2

----------------------------------------------------------------------------
(* Providers without embedding capability *)

\* the configuration the model name of the body resolves to
ResolvedConfig(b) == embeddingModels[ModelKey(b.model)]

\* the API key a provider needs
RequiredKey(provider) ==
    CASE provider = "google" -> "GEMINI_API_KEY"
      [] provider = "openai" -> "OPENAI_API_KEY"
      [] OTHER -> "OPENROUTER_API_KEY"

\* the provider of the configuration cannot serve embeddings, or its
\* credential is missing
CannotEmbed(config) ==
    \/ config.provider # "google"
    \/ config.provider \notin providers
    \/ RequiredKey(config.provider) \notin env

(* C24: when the model of an embedding request resolves to a configuration *)
(* whose provider is not google or lacks its credential, no upstream call  *)
(* is issued and the request ends with one error response; when the body   *)
(* is valid otherwise, that response has status 400 or 401 and carries the *)
(* message of the rejection, which names the provider, verbatim.           *)
C24_ProviderRejectionPassedThrough ==
    \A r \in Req :
        (/\ IsEmbeddings(r) /\ pc[r] # "received"
         /\ EmbeddingModelKnown(body[r])
         /\ CannotEmbed(ResolvedConfig(body[r])))
        => /\ upstream[r].calls = << >>
           /\ pc[r] = "done"
           /\ SingleErrorResponse(response[r])
           /\ Accepted(r)
                => /\ response[r].statusCode \in {400, 401}
                   /\ response[r].json.error = local[r].caught
                   /\ Includes(response[r].json.error,
                               <<ResolvedConfig(body[r]).provider>>)

----------------------------------------------------------------------------
(* The reply of a non-streaming generation *)

\* request r is a chat or generate request answered without streaming from
\* the result generateText resolved to
AnsweredFromResult(r) ==
    /\ IsGeneration(route[r]) /\ ~Truthy(body[r].stream)
    /\ pc[r] = "done" /\ response[r].statusCode = 200
    /\ Len(upstream[r].replies) = 1 /\ upstream[r].replies[1].kind = "result"

\* the transcript of the result holds a message with role assistant
HasAssistant(result) == result.hasMessages /\ Assistants(result.messages) # {}

\* the last message with role assistant
LastAssistant(result) == result.messages[Max(Assistants(result.messages))]

\* the content a message gives: its content, else its text, else ''
ContentOf(msg) == Or(Or(msg.content, msg.text), StrV(EmptyStr))

(* C25: in a non-streaming reply, when the upstream result has a messages  *)
(* array with a message of role assistant, the content sent is the content *)
(* of the last such message, whatever the raw text field holds, and the    *)
(* reasoning of that message, when it has one, is the reasoning sent;      *)
(* otherwise the content sent is the raw text field ('' when there is      *)
(* none).                                                                  *)
C25_LastAssistantMessageIsReply ==
    \A r \in Req :
        AnsweredFromResult(r)
        => LET result == upstream[r].replies[1]
               json == response[r].json
           IN  /\ HasAssistant(result)
                    => /\ json.content = ContentOf(LastAssistant(result))
                       /\ Truthy(LastAssistant(result).reasoning)
                            => json.reasoning = LastAssistant(result).reasoning
               /\ ~HasAssistant(result)
                    => json.content = Or(result.text, StrV(EmptyStr))

----------------------------------------------------------------------------
(* Generation options *)

(* C26: every generateText and streamText call carries the temperature,    *)
(* num_predict and top_p of the request's options as the client sent them, *)
(* and an option the client did not set is undefined in the call.          *)
C26_OptionsPassedUnmodified ==
    \A r \in Req : \A k \in 1 .. Len(upstream[r].calls) :
        IsGeneration(route[r])
        => LET call == upstream[r].calls[k]
               options == body[r].options
           IN  /\ call.api = (IF Truthy(body[r].stream) THEN "streamText" ELSE "generateText")
               /\ call.temperature = options.temperature
               /\ call.maxTokens = options.num_predict
               /\ call.topP = options.top_p

----------------------------------------------------------------------------
(* The model name a stream reports *)

(* C27: every object of a streaming response (delta chunks, the terminal   *)
(* chunk, the error chunk) has as its model field the model name the       *)
(* client sent, never the upstream model id configured for that name.      *)
C27_StreamReportsRequestedModel ==
    \A r \in Req : \A k \in 1 .. Len(response[r].lines) :
        (IsGeneration(route[r]) /\ IsStream(r))
        => /\ "model" \in response[r].lines[k].keys
           /\ response[r].lines[k].model = body[r].model
           /\ (local[r].modelConfig.model # ModelKey(body[r].model))
                => response[r].lines[k].model.name # local[r].modelConfig.model

----------------------------------------------------------------------------
(* Dimensions of the vectors of one result *)

(* C28: the result of an embedding request that was answered with 200 is   *)
(* never empty, and all its vectors have the same length: the vectors the  *)
(* loop collected, and the vectors of the envelope sent to the client.     *)
C28_VectorsOfEqualLength ==
    \A r \in Req :
        (IsEmbeddings(r) /\ pc[r] = "done" /\ response[r].statusCode = 200)
        => LET sent == ResponseVectors(response[r].json)
               collected == local[r].embeddings
           IN  /\ Len(collected) >= 1 /\ Len(sent) >= 1
               /\ \A j, k \in 1 .. Len(collected) : Len(collected[j]) = Len(collected[k])
               /\ \A j, k \in 1 .. Len(sent) : Len(sent[j]) = Len(sent[k])

----------------------------------------------------------------------------
(* Isolation of concurrent requests *)

\* the calls of an embedding request carry its own texts in order, and the
\* vectors of its 200 answer are the replies to its own calls in order
OwnVectors(r) ==
    /\ \A k \in 1 .. Len(upstream[r].calls) :
           upstream[r].calls[k].text = RequestTexts(body[r])[k]
    /\ Embedded(r)
         => /\ Len(upstream[r].replies) = Len(RequestTexts(body[r]))
            /\ ResponseVectors(response[r].json)
                   = [k \in 1 .. Len(upstream[r].replies) |-> upstream[r].replies[k].values]

\* the lines written to the connection of a stream are the deltas of its own
\* text stream in order, followed by its own terminal or error object
OwnChunks(r) ==
    LET lines == response[r].lines
        deltas == upstream[r].deltas
    IN  /\ Len(lines) = Len(deltas) + (IF upstream[r].finish # "" THEN 1 ELSE 0)
        /\ \A k \in 1 .. Len(deltas) :
               /\ k <= Len(lines)
               /\ ~lines[k].done /\ lines[k].content = StrV(deltas[k])
        /\ upstream[r].finish # ""
             => /\ Len(lines) >= 1 /\ lines[Len(lines)].done
                /\ upstream[r].finish = "error"
                     => lines[Len(lines)].error = upstream[r].thrown

\* the non-streaming reply is built from the result of the request's own call
OwnReply(r) ==
    AnsweredFromResult(r)
    => response[r].json.content = generateResponseResult(upstream[r].replies[1]).text

(* C29: with several requests in flight, interleaved at every upstream     *)
(* call and every write, each connection carries only what its own request *)
(* and its own upstream results give: an embedding answer holds exactly    *)
(* the vectors returned to its own calls, in order; the lines of a stream  *)
(* are the deltas of its own text stream; nothing is written to a          *)
(* connection without a request; and the registry views and the provider   *)
(* handles stay as loadModels left them.                                   *)
C29_RequestsIsolated ==
    /\ InitRegistry
    /\ \A r \in Req :
        /\ IsEmbeddings(r) => OwnVectors(r)
        /\ (IsGeneration(route[r]) /\ IsStream(r)) => OwnChunks(r)
        /\ (IsGeneration(route[r]) /\ ~IsStream(r))
             => /\ response[r].lines = << >>
                /\ upstream[r].deltas = << >>
                /\ OwnReply(r)
        /\ route[r] = "none"
             => response[r] = NewResponse /\ upstream[r] = NoUpstream

\* two streams are in flight, each has written a chunk, and the chunks differ
C29_Witness ==
    \E r1 \in Req, r2 \in Req :
        /\ r1 # r2
        /\ pc[r1] = "textStream" /\ pc[r2] = "textStream"
        /\ Len(response[r1].lines) = 2 /\ Len(response[r2].lines) = 1
        /\ response[r1].lines[1].content # response[r2].lines[1].content
        /\ response[r1].lines[1].content = StrV(upstream[r1].deltas[1])
        /\ response[r2].lines[1].content = StrV(upstream[r2].deltas[1])

----------------------------------------------------------------------------
(* Bodies that are not JSON *)

\* the body of request r is still the text that arrived
Unparsed(r) == "kind" \in DOMAIN body[r]

(* C30: a POST to one of the three routes whose body is not valid JSON is  *)
(* answered with exactly one error response {error: ...} once its body has *)
(* been read, and the server goes on serving: the process never exits      *)
(* while requests are in flight.                                           *)
C30_MalformedBodyAnswered ==
    /\ \A r \in Req : pc[r] # "exited"
    /\ \A r \in Req :
        (route[r] # "none" /\ Unparsed(r) /\ ParseThrows(body[r]) /\ pc[r] # "reading")
        => pc[r] = "done" /\ SingleErrorResponse(response[r])

=============================================================================
